---- MODULE Spec2Model ----
(***************************************************************************)
(* StegCrypt: password-encrypted payloads hidden in the least-significant  *)
(* bits of PNG/BMP rasters and 16-bit PCM WAV samples.                     *)
(*                                                                         *)
(* The module holds three state machines over one set of variables:        *)
(*   SpecSteg   - the LSB engines (embedData/extractData, embedWavData/     *)
(*                extractWavData) applied to bounded carriers;             *)
(*   Spec       - the Encode and Decode pages (mode and depth selection,   *)
(*                handleEncode, handleDecode) over the payload container,  *)
(*                the crypto envelope and the LSB engines;                 *)
(*   SpecWorker - WorkerClient and the crypto worker exchanging messages   *)
(*                for several jobs at once.                                *)
(***************************************************************************)
EXTENDS Integers, Sequences, FiniteSets, TLC

VARIABLES
    \* ---- SpecSteg: LSB engines on their own
    sKind,      \* "image" | "audio"
    sImage,     \* ImageData: [width, height, data]
    sWav,       \* WavData: [samples, sampleRate, channels, bitsPerSample]
    sEnv,       \* the envelope handed to embed
    sDepth,     \* lsbDepth used by embed
    sStego,     \* result of embed: [ok, image / wav] or [ok |-> FALSE, error]
    sXDepth,    \* lsbDepth used by the last extract (0: none yet)
    sOut,       \* result of the last extract: NULL or a byte sequence
    sPc,        \* "init" | "embedded" | "extracted" | "failed"
    sCapacity,  \* maxCapacityBytes reported for the carrier (-1: not analysed)
    \* ---- Spec: application state shared by the pages
    mode,             \* ModeContext: "quick" | "expert"
    isMobile,         \* isMobileDevice() of this browser
    page,             \* the mounted page: "encode" | "decode"
    toast,            \* the toast raised by the last handler
    download,         \* the file saved by handleEncode, NoFile if none
    \* ---- Spec: Encode page
    carrierFile,      \* File or NoFile (null)
    carrierType,      \* "image" | "audio" | "null"
    payloadText,      \* string
    payloadFile,      \* File or NoFile (null)
    encPassword,      \* password of the Encode page
    encConfirm,       \* confirmPassword of the Encode page
    encLsbDepth,      \* parseInt(lsbDepth) of the Encode page
    useArgon2,        \* BOOLEAN
    encPc,            \* where handleEncode is suspended, "idle" if not running
    encLocals,        \* locals of the running handleEncode
    encLog,           \* history of the last handleEncode run
    \* ---- Spec: Decode page
    stegoFile,        \* File or NoFile (null)
    decCarrierType,   \* carrierType of the Decode page
    decPassword,      \* password of the Decode page
    decLsbDepth,      \* parseInt(lsbDepth) of the Decode page
    decPc,            \* where handleDecode is suspended, "idle" if not running
    decLocals,        \* locals of the running handleDecode
    decodedText,      \* string shown to the user
    decodedBlob,      \* [present, type, bytes] offered for download
    decodedFileName,  \* string
    decLog,           \* history of the last handleDecode run
    \* ---- Spec: the crypto worker as seen from the pages
    cryptoRequest,    \* the job posted by encryptInWorker / decryptInWorker
    cryptoResponse,   \* the COMPLETE or ERROR message of that job
    cryptoLog,        \* history: what the worker has computed
    \* ---- SpecWorker: one WorkerClient and its crypto worker
    jobs,             \* WorkerClient.jobs and the promise of each execute()
    jobCounter,       \* WorkerClient.jobCounter
    workerInbox,      \* messages posted to the worker, not yet handled
    clientInbox,      \* messages posted by the worker, not yet handled
    activeJobs,       \* the worker's activeJobs map: "absent" | "true" | "false"
    tasks,            \* the worker's handleEncrypt / handleDecrypt calls
    worker,           \* WorkerClient.worker: "running" | "terminated"
    \* ---- SpecCodec: the container, envelope and file codecs, call by call
    cCase,      \* "legacy" | "container" | "crypto" | "png" | "bmp" | "wav" | "off"
    cIn,        \* the input of the first call
    cMid,       \* what the first call returned
    cOut,       \* what the last call returned
    cPc         \* "init" | "packed" | "unpacked" | "encrypted" | ... | "off"

stegVars == <<sKind, sImage, sWav, sEnv, sDepth, sStego, sXDepth, sOut, sPc,
              sCapacity>>

appVars == <<mode, isMobile, page, toast, download>>

encodeVars == <<carrierFile, carrierType, payloadText, payloadFile, encPassword,
                encConfirm, encLsbDepth, useArgon2, encPc, encLocals, encLog>>

decodeVars == <<stegoFile, decCarrierType, decPassword, decLsbDepth, decPc,
                decLocals, decodedText, decodedBlob, decodedFileName, decLog>>

cryptoVars == <<cryptoRequest, cryptoResponse, cryptoLog>>

pageVars == <<appVars, encodeVars, decodeVars, cryptoVars>>

workerVars == <<jobs, jobCounter, workerInbox, clientInbox, activeJobs, tasks,
                worker>>

codecVars == <<cCase, cIn, cMid, cOut, cPc>>

vars == <<stegVars, pageVars, workerVars, codecVars>>

\* What extractData and extractWavData return: null, or the extracted bytes.
NULL == [found |-> FALSE, bytes |-> << >>]
Bytes(b) == [found |-> TRUE, bytes |-> b]

-----------------------------------------------------------------------------
(* Integer helpers: JavaScript's bit operators on the widths the code uses  *)

RECURSIVE Pow2(_)
Pow2(n) == IF n <= 0 THEN 1 ELSE 2 * Pow2(n - 1)

\* (v >> k) & 1 for a non-negative v
BitAt(v, k) == (v \div Pow2(k)) % 2

\* The two's-complement bit pattern of a signed 16-bit value, and back
\* (what storing into an Int16Array keeps of a number).
U16(s) == IF s < 0 THEN s + 65536 ELSE s
ToInt16(v) == LET u == v % 65536 IN IF u >= 32768 THEN u - 65536 ELSE u

Min(a, b) == IF a < b THEN a ELSE b
Max(a, b) == IF a > b THEN a ELSE b

\* A 32-bit length, most significant byte first (len >> 24 ... len & 0xFF).
BE32(n) == << (n \div 16777216) % 256, (n \div 65536) % 256,
              (n \div 256) % 256, n % 256 >>

\* A 32-bit length, least significant byte first (DataView.setUint32(.., true)).
LE32(n) == << n % 256, (n \div 256) % 256,
              (n \div 65536) % 256, (n \div 16777216) % 256 >>

\* DataView.getUint32(off, true). The checker's integers are 32-bit signed, so a
\* value of 2^31 or more is read as 2^31 - 1: the code only compares such a value
\* with small constants, and every comparison comes out the same.
ReadLE32(b, off) ==
    IF b[off + 4] >= 128 THEN 2147483647
    ELSE b[off + 1] + 256 * b[off + 2] + 65536 * b[off + 3] + 16777216 * b[off + 4]

Slice(s, from, to) == IF to <= from THEN << >>
                      ELSE [i \in 1..(to - from) |-> s[from + i]]

-----------------------------------------------------------------------------
(* The framed message: "STEG" + big-endian length + envelope                *)

MAGIC_HEADER == <<83, 84, 69, 71>>

LsbDepths == 1..4

\* message = MAGIC (4) + LENGTH (4, big endian) + DATA
FrameMessage(payload) == MAGIC_HEADER \o BE32(Len(payload)) \o payload

\* (message[byteIndex] >> bitPosition) & 1 with byteIndex = floor(bitIndex / 8)
\* and bitPosition = 7 - bitIndex % 8: bit bitIndex (from 0) of the message.
MessageBit(message, bitIndex) ==
    BitAt(message[(bitIndex \div 8) + 1], 7 - (bitIndex % 8))

\* v & (((1 << width) - 1) << d) for a non-negative v: keeps bits d..d+width-1.
AndShiftedMask(v, width, d) == ((v \div Pow2(d)) % Pow2(width)) * Pow2(d)

\* v | (b << k)
OrBit(v, b, k) == IF b = 1 /\ BitAt(v, k) = 0 THEN v + Pow2(k) ELSE v

\* for (bit = lsbDepth - 1; bit >= 0 && bitIndex < total; bit--)
\*     value |= messageBit(bitIndex++) << bit
RECURSIVE SetLsbBits(_, _, _, _, _)
SetLsbBits(value, message, bitIndex, bit, total) ==
    IF bit < 0 \/ bitIndex >= total THEN value
    ELSE SetLsbBits(OrBit(value, MessageBit(message, bitIndex), bit),
                    message, bitIndex + 1, bit - 1, total)

-----------------------------------------------------------------------------
(* LSB engine, image (steganography.ts)                                     *)

TooLarge(needed, available) == [ok |-> FALSE, error |-> "Payload too large"]

\* Mutant of analyzeImageCapacity: the 8 bytes of magic and length are not
\* taken off.
analyzeImageCapacity_NoHeader(imageData, lsbDepth) ==
    (imageData.width * imageData.height * (3 * lsbDepth)) \div 8

\* maxCapacityBytes of analyzeImageCapacity
analyzeImageCapacity(imageData, lsbDepth) ==
    LET usablePixels == imageData.width * imageData.height
        maxCapacityBits == usablePixels * (3 * lsbDepth)
    IN Max(0, (maxCapacityBits \div 8) - 8)

\* Mutant of EmbedChannelValue: the low bits are not cleared before the OR.
EmbedChannelValue_NoClear(pixelValue, message, bitIndex, lsbDepth, total) ==
    SetLsbBits(pixelValue, message, bitIndex, lsbDepth - 1, total)

\* One R, G or B value of the embedding loop: clear the low bits, set the new ones.
EmbedChannelValue(pixelValue, message, bitIndex, lsbDepth, total) ==
    SetLsbBits(AndShiftedMask(pixelValue, 8, lsbDepth), message, bitIndex,
               lsbDepth - 1, total)

\* Mutant of EmbedPixels: alpha is set to 255 in every pixel of the raster.
EmbedPixels_AlphaEverywhere(data, message, lsbDepth) ==
    LET total == Len(message) * 8
    IN [i \in 1..Len(data) |->
          LET p  == (i - 1) \div 4
              ch == (i - 1) % 4
              c  == 3 * p + ch
          IN IF ch = 3 THEN 255
             ELSE IF lsbDepth * c >= total THEN data[i]
             ELSE EmbedChannelValue(data[i], message, lsbDepth * c, lsbDepth, total)]

\* The pixel loop of embedData. Every channel that the loop reaches consumes
\* lsbDepth bits unless the message ends inside it, so the loop enters pixel p
\* with bitIndex = min(total, 3 * lsbDepth * p) and channel c (counted over R, G,
\* B only) with bitIndex = min(total, lsbDepth * c); a pixel or channel is
\* visited iff that value is below total.
EmbedPixels(data, message, lsbDepth) ==
    LET total == Len(message) * 8
    IN [i \in 1..Len(data) |->
          LET p  == (i - 1) \div 4
              ch == (i - 1) % 4
              c  == 3 * p + ch
          IN IF 3 * lsbDepth * p >= total THEN data[i]
             ELSE IF ch = 3 THEN 255
             ELSE IF lsbDepth * c >= total THEN data[i]
             ELSE EmbedChannelValue(data[i], message, lsbDepth * c, lsbDepth, total)]

\* Mutant of embedData: the depth argument is ignored, two bits are always used.
embedData_FixedDepth(imageData, payload, lsbDepth) ==
    LET message == FrameMessage(payload)
        availableBits == imageData.width * imageData.height * 3 * 2
        neededBits == Len(message) * 8
    IN IF neededBits > availableBits THEN TooLarge(neededBits, availableBits)
       ELSE [ok |-> TRUE,
             image |-> [width |-> imageData.width, height |-> imageData.height,
                        data |-> EmbedPixels(imageData.data, message, 2)]]

embedData(imageData, payload, lsbDepth) ==
    LET message == FrameMessage(payload)
        availableBits == imageData.width * imageData.height * 3 * lsbDepth
        neededBits == Len(message) * 8
    IN IF neededBits > availableBits THEN TooLarge(neededBits, availableBits)
       ELSE [ok |-> TRUE,
             image |-> [width |-> imageData.width, height |-> imageData.height,
                        data |-> EmbedPixels(imageData.data, message, lsbDepth)]]

\* extractedBits of extractData: pixels in order, R, G, B of each, and of each
\* value the bits lsbDepth-1 down to 0 (position k counted from 0).
ImageBit(data, lsbDepth, k) ==
    LET c == k \div lsbDepth
        bit == lsbDepth - 1 - (k % lsbDepth)
    IN BitAt(data[4 * (c \div 3) + (c % 3) + 1], bit)

\* extractedBits.length: lsbDepth bits for each of R, G, B of every pixel.
ExtractedBitsLength(data, lsbDepth) == (Len(data) \div 4) * 3 * lsbDepth

\* byte |= bit << (7 - bitIdx) for bitIdx = 0..7, the bits being
\* extractedBits[start .. start + 7] (start counted from 0).
ImageByte(data, lsbDepth, start) ==
      128 * ImageBit(data, lsbDepth, start)
    +  64 * ImageBit(data, lsbDepth, start + 1)
    +  32 * ImageBit(data, lsbDepth, start + 2)
    +  16 * ImageBit(data, lsbDepth, start + 3)
    +   8 * ImageBit(data, lsbDepth, start + 4)
    +   4 * ImageBit(data, lsbDepth, start + 5)
    +   2 * ImageBit(data, lsbDepth, start + 6)
    +       ImageBit(data, lsbDepth, start + 7)

\* payloadLength = (payloadLength << 8) | byte, four times, in 32-bit signed
\* arithmetic: a length with its top bit set is negative.
SignedBE32(b0, b1, b2, b3) ==
    16777216 * (IF b0 >= 128 THEN b0 - 256 ELSE b0) + 65536 * b1 + 256 * b2 + b3

\* An extractData whose sanity check lets a length of 0 pass.
extractData_ZeroLength(imageData, lsbDepth) ==
    LET maxBits == imageData.width * imageData.height * 3 * lsbDepth
        data == imageData.data
        extractedBitsLength == ExtractedBitsLength(data, lsbDepth)
        hdr == [j \in 0..7 |-> ImageByte(data, lsbDepth, 8 * j)]
        payloadLength == SignedBE32(hdr[4], hdr[5], hdr[6], hdr[7])
        maxPayloadBytes == (extractedBitsLength - 64) \div 8
    IN IF maxBits < 64 THEN NULL
       ELSE IF extractedBitsLength < 64 THEN NULL
       ELSE IF <<hdr[0], hdr[1], hdr[2], hdr[3]>> # MAGIC_HEADER THEN NULL
       ELSE IF payloadLength < 0 \/ payloadLength > maxPayloadBytes THEN NULL
       ELSE Bytes([byteIdx \in 1..payloadLength |->
                      ImageByte(data, lsbDepth, 64 + (byteIdx - 1) * 8)])

extractData(imageData, lsbDepth) ==
    LET maxBits == imageData.width * imageData.height * 3 * lsbDepth
        data == imageData.data
        extractedBitsLength == ExtractedBitsLength(data, lsbDepth)
        hdr == [j \in 0..7 |-> ImageByte(data, lsbDepth, 8 * j)]
        payloadLength == SignedBE32(hdr[4], hdr[5], hdr[6], hdr[7])
        maxPayloadBytes == (extractedBitsLength - 64) \div 8
    IN IF maxBits < 64 THEN NULL
       ELSE IF extractedBitsLength < 64 THEN NULL
       ELSE IF <<hdr[0], hdr[1], hdr[2], hdr[3]>> # MAGIC_HEADER THEN NULL
       ELSE IF payloadLength <= 0 \/ payloadLength > maxPayloadBytes THEN NULL
       ELSE Bytes([byteIdx \in 1..payloadLength |->
                      ImageByte(data, lsbDepth, 64 + (byteIdx - 1) * 8)])

-----------------------------------------------------------------------------
(* LSB engine, audio (wav-codec.ts)                                         *)

\* Mutant of analyzeWavCapacity: the byte count is rounded up.
analyzeWavCapacity_RoundUp(wavData, lsbDepth) ==
    LET maxCapacityBits == Len(wavData.samples) * lsbDepth
    IN Max(0, ((maxCapacityBits + 7) \div 8) - 8)

\* maxCapacityBytes of analyzeWavCapacity
analyzeWavCapacity(wavData, lsbDepth) ==
    LET maxCapacityBits == Len(wavData.samples) * lsbDepth
    IN Max(0, (maxCapacityBits \div 8) - 8)

\* samples[i] & (0xFFFF << lsbDepth): a 32-bit AND of the sign-extended sample
\* with bits lsbDepth..lsbDepth+15. Bits 0..15 of the sample are those of its
\* 16-bit pattern; bits 16 and up are copies of its sign.
MaskSample(sample, lsbDepth) ==
    AndShiftedMask(U16(sample), 16, lsbDepth)
    + (IF sample < 0 THEN (Pow2(lsbDepth) - 1) * 65536 ELSE 0)

\* Mutant of EmbedSampleValue: the low bits are not cleared before the OR.
EmbedSampleValue_NoClear(sample, bits, bitIndex, lsbDepth, total) ==
    ToInt16(SetLsbBits(U16(sample), bits, bitIndex, lsbDepth - 1, total))

\* One sample of the embedding loop; storing the result into the Int16Array
\* keeps its low 16 bits.
EmbedSampleValue(sample, bits, bitIndex, lsbDepth, total) ==
    ToInt16(SetLsbBits(MaskSample(sample, lsbDepth), bits, bitIndex,
                       lsbDepth - 1, total))

\* Mutant of EmbedSamples: the loop runs on to the last sample, clearing the
\* low bits of the samples behind the message.
EmbedSamples_ToTheEnd(samples, message, lsbDepth) ==
    LET total == Len(message) * 8
    IN [i \in 1..Len(samples) |->
          EmbedSampleValue(samples[i], message, Min(total, lsbDepth * (i - 1)),
                           lsbDepth, total)]

\* The sample loop of embedWavData: sample i is entered with bitIndex =
\* min(total, lsbDepth * (i - 1)) and written iff that is below total.
EmbedSamples(samples, message, lsbDepth) ==
    LET total == Len(message) * 8
    IN [i \in 1..Len(samples) |->
          IF lsbDepth * (i - 1) >= total THEN samples[i]
          ELSE EmbedSampleValue(samples[i], message, lsbDepth * (i - 1), lsbDepth, total)]

embedWavData(wavData, payload, lsbDepth) ==
    LET fullMessage == FrameMessage(payload)
        nbits == Len(fullMessage) * 8
        availableBits == Len(wavData.samples) * lsbDepth
    IN IF nbits > availableBits THEN TooLarge(nbits, availableBits)
       ELSE [ok |-> TRUE,
             wav |-> [wavData EXCEPT !.samples =
                         EmbedSamples(wavData.samples, fullMessage, lsbDepth)]]

\* bits of extractWavData: (samples[i] >> d) & 1 for d = lsbDepth-1 .. 0
WavBit(samples, lsbDepth, k) ==
    BitAt(U16(samples[(k \div lsbDepth) + 1]), lsbDepth - 1 - (k % lsbDepth))

\* byte |= bits[start + b] << (7 - b) for b = 0..7 (start counted from 0)
WavByte(samples, lsbDepth, start) ==
      128 * WavBit(samples, lsbDepth, start)
    +  64 * WavBit(samples, lsbDepth, start + 1)
    +  32 * WavBit(samples, lsbDepth, start + 2)
    +  16 * WavBit(samples, lsbDepth, start + 3)
    +   8 * WavBit(samples, lsbDepth, start + 4)
    +   4 * WavBit(samples, lsbDepth, start + 5)
    +   2 * WavBit(samples, lsbDepth, start + 6)
    +       WavBit(samples, lsbDepth, start + 7)

\* extractWavData reading one bit per sample whatever the depth asked for
extractWavData_DepthOne(wavData, lsbDepth) ==
    LET samples == wavData.samples
        totalBits == Len(samples)
        hdr == [j \in 0..7 |-> WavByte(samples, 1, 8 * j)]
        tooBig == hdr[4] >= 128
        payloadLength == 16777216 * (hdr[4] % 128) + 65536 * hdr[5] + 256 * hdr[6] + hdr[7]
        maxPossibleBytes == (totalBits - 64) \div 8
    IN IF totalBits < 64 THEN NULL
       ELSE IF <<hdr[0], hdr[1], hdr[2], hdr[3]>> # MAGIC_HEADER THEN NULL
       ELSE IF tooBig \/ payloadLength <= 0 \/ payloadLength > maxPossibleBytes THEN NULL
       ELSE Bytes([i \in 1..payloadLength |-> WavByte(samples, 1, 64 + (i - 1) * 8)])

extractWavData(wavData, lsbDepth) ==
    LET samples == wavData.samples
        totalBits == Len(samples) * lsbDepth
        hdr == [j \in 0..7 |-> WavByte(samples, lsbDepth, 8 * j)]
        \* DataView.getUint32(0, false) is unsigned: with the top bit set it is
        \* 2^31 or more, above every maxPossibleBytes.
        tooBig == hdr[4] >= 128
        payloadLength == 16777216 * (hdr[4] % 128) + 65536 * hdr[5] + 256 * hdr[6] + hdr[7]
        maxPossibleBytes == (totalBits - 64) \div 8
    IN IF totalBits < 64 THEN NULL
       ELSE IF <<hdr[0], hdr[1], hdr[2], hdr[3]>> # MAGIC_HEADER THEN NULL
       ELSE IF tooBig \/ payloadLength <= 0 \/ payloadLength > maxPossibleBytes THEN NULL
       ELSE Bytes([i \in 1..payloadLength |-> WavByte(samples, lsbDepth, 64 + (i - 1) * 8)])

-----------------------------------------------------------------------------
(* SpecSteg: the LSB engines applied to bounded carriers and envelopes      *)

MaxW == 3
MaxH == 9
MaxEnvLen == 2

\* Pixel and sample contents are drawn from value patterns over the index:
\* all zero bits, all one bits, a mixed ramp, and carriers that already hold
\* a frame at depth 1, 2, 3 or 4 (the worst case for a depth mismatch).
Patterns == {"zeros", "ones", "ramp", "stego1", "stego2", "stego3", "stego4"}

PatternDepth(pattern) ==
    CASE pattern = "stego1" -> 1
      [] pattern = "stego2" -> 2
      [] pattern = "stego3" -> 3
      [] pattern = "stego4" -> 4
      [] OTHER -> 0

\* 'S' and its bitwise complement: every bit position takes both values.
EnvelopeBytes == {83, 172}

Envelopes == UNION {[1..len -> EnvelopeBytes] : len \in 1..MaxEnvLen}

RawPixels(n, pattern) ==
    [i \in 1..n |-> CASE pattern = "ones" -> 255
                      [] pattern = "ramp" -> (i * 37 + 11) % 256
                      [] OTHER -> 0]

ImageOf(w, h, pattern) ==
    LET plain == [width |-> w, height |-> h, data |-> RawPixels(4 * w * h, pattern)]
        pre == embedData(plain, <<1>>, PatternDepth(pattern))
    IN IF PatternDepth(pattern) > 0 /\ pre.ok THEN pre.image ELSE plain

RawSamples(n, pattern) ==
    [i \in 1..n |-> CASE pattern = "ones" -> -1
                      [] pattern = "ramp" -> ((i * 7919) % 65536) - 32768
                      [] OTHER -> 0]

WavOf(n, pattern) ==
    LET plain == [samples |-> RawSamples(n, pattern), sampleRate |-> 44100,
                  channels |-> 1, bitsPerSample |-> 16]
        pre == embedWavData(plain, <<1>>, PatternDepth(pattern))
    IN IF PatternDepth(pattern) > 0 /\ pre.ok THEN pre.wav ELSE plain

NoImage == [width |-> 0, height |-> 0, data |-> << >>]
NoWav == [samples |-> << >>, sampleRate |-> 0, channels |-> 0, bitsPerSample |-> 0]
NoResult == [ok |-> FALSE, error |-> "none"]

StegInit ==
    /\ sKind \in {"image", "audio"}
    /\ \E w \in {1, MaxW}, h \in 1..MaxH, pattern \in Patterns :
          /\ sImage = IF sKind = "image" THEN ImageOf(w, h, pattern) ELSE NoImage
          /\ sWav = IF sKind = "audio" THEN WavOf(3 * w * h, pattern) ELSE NoWav
    /\ sEnv \in Envelopes
    /\ sDepth \in LsbDepths
    /\ sStego = NoResult
    /\ sXDepth = 0
    /\ sOut = NULL
    /\ sPc = "init"
    /\ sCapacity = -1

\* embedData(imageData, envelope, lsbDepth): a stego raster, or the thrown error
StegEmbedImage ==
    /\ sPc = "init" /\ sKind = "image"
    /\ sStego' = embedData(sImage, sEnv, sDepth)
    /\ sPc' = IF sStego'.ok THEN "embedded" ELSE "failed"
    /\ UNCHANGED <<sKind, sImage, sWav, sEnv, sDepth, sXDepth, sOut, sCapacity>>
    /\ UNCHANGED <<pageVars, workerVars, codecVars>>

\* embedWavData(wavData, envelope, lsbDepth)
StegEmbedWav ==
    /\ sPc = "init" /\ sKind = "audio"
    /\ sStego' = embedWavData(sWav, sEnv, sDepth)
    /\ sPc' = IF sStego'.ok THEN "embedded" ELSE "failed"
    /\ UNCHANGED <<sKind, sImage, sWav, sEnv, sDepth, sXDepth, sOut, sCapacity>>
    /\ UNCHANGED <<pageVars, workerVars, codecVars>>

\* extractData(stego, lsbDepth) at any depth
StegExtractImage(dx) ==
    /\ sPc = "embedded" /\ sKind = "image"
    /\ sOut' = extractData(sStego.image, dx)
    /\ sXDepth' = dx
    /\ sPc' = "extracted"
    /\ UNCHANGED <<sKind, sImage, sWav, sEnv, sDepth, sStego, sCapacity>>
    /\ UNCHANGED <<pageVars, workerVars, codecVars>>

\* extractWavData(stego, lsbDepth) at any depth
StegExtractWav(dx) ==
    /\ sPc = "embedded" /\ sKind = "audio"
    /\ sOut' = extractWavData(sStego.wav, dx)
    /\ sXDepth' = dx
    /\ sPc' = "extracted"
    /\ UNCHANGED <<sKind, sImage, sWav, sEnv, sDepth, sStego, sCapacity>>
    /\ UNCHANGED <<pageVars, workerVars, codecVars>>

\* analyzeImageCapacity / analyzeWavCapacity of the carrier at the chosen depth
StegAnalyze ==
    /\ sPc = "init" /\ sCapacity = -1
    /\ sCapacity' = IF sKind = "image" THEN analyzeImageCapacity(sImage, sDepth)
                    ELSE analyzeWavCapacity(sWav, sDepth)
    /\ UNCHANGED <<sKind, sImage, sWav, sEnv, sDepth, sStego, sXDepth, sOut, sPc>>
    /\ UNCHANGED <<pageVars, workerVars, codecVars>>

StegNext ==
    \/ StegAnalyze
    \/ StegEmbedImage
    \/ StegEmbedWav
    \/ \E dx \in LsbDepths : StegExtractImage(dx)
    \/ \E dx \in LsbDepths : StegExtractWav(dx)


-----------------------------------------------------------------------------
(* SpecProbe: extraction from carriers as they come, among them carriers     *)
(* whose low bits hold a frame header with a chosen length field            *)

\* Plain carriers, a carrier in which embedData / embedWavData has embedded the
\* empty envelope, and carriers that hold 'STEG' and a length field: of 200,
\* with the top bit set, of exactly the room behind the header, and of one more.
ProbePatterns == {"zeros", "ramp", "empty", "cut", "top", "full", "over"}

\* The length field put into a carrier that offers totalBits bits.
ProbeLength(pattern, totalBits) ==
    LET room == Max(0, (totalBits - 64) \div 8)
    IN CASE pattern = "cut" -> BE32(200)
         [] pattern = "top" -> <<128, 0, 0, 1>>
         [] pattern = "full" -> BE32(room)
         [] OTHER -> BE32(room + 1)

ProbeImage(w, h, pattern, d) ==
    LET plain == [width |-> w, height |-> h,
                  data |-> RawPixels(4 * w * h, IF pattern = "zeros" THEN "zeros" ELSE "ramp")]
        totalBits == w * h * 3 * d
        empty == embedData(plain, << >>, d)
    IN IF pattern \in {"zeros", "ramp"} \/ totalBits < 64 THEN plain
       ELSE IF pattern = "empty" THEN empty.image
       ELSE [plain EXCEPT !.data =
                EmbedPixels(plain.data, MAGIC_HEADER \o ProbeLength(pattern, totalBits), d)]

ProbeWav(n, pattern, d) ==
    LET plain == [samples |-> RawSamples(n, IF pattern = "zeros" THEN "zeros" ELSE "ramp"),
                  sampleRate |-> 44100, channels |-> 1, bitsPerSample |-> 16]
        totalBits == n * d
        empty == embedWavData(plain, << >>, d)
    IN IF pattern \in {"zeros", "ramp"} \/ totalBits < 64 THEN plain
       ELSE IF pattern = "empty" THEN empty.wav
       ELSE [plain EXCEPT !.samples =
                EmbedSamples(plain.samples, MAGIC_HEADER \o ProbeLength(pattern, totalBits), d)]

\* sDepth is the depth the carrier's header, if any, was written at.
ProbeInit ==
    /\ sKind \in {"image", "audio"}
    /\ sDepth \in LsbDepths
    /\ \E w \in {1, MaxW}, h \in 1..MaxH, pattern \in ProbePatterns :
          /\ sImage = IF sKind = "image" THEN ProbeImage(w, h, pattern, sDepth) ELSE NoImage
          /\ sWav = IF sKind = "audio" THEN ProbeWav(3 * w * h, pattern, sDepth) ELSE NoWav
    /\ sEnv = << >>
    /\ sStego = NoResult
    /\ sXDepth = 0
    /\ sOut = NULL
    /\ sPc = "carrier"
    /\ sCapacity = -1

\* extractData(imageData, lsbDepth) of the carrier
ProbeExtractImage(dx) ==
    /\ sPc = "carrier" /\ sKind = "image"
    /\ sOut' = extractData(sImage, dx)
    /\ sXDepth' = dx
    /\ sPc' = "probed"
    /\ UNCHANGED <<sKind, sImage, sWav, sEnv, sDepth, sStego, sCapacity>>
    /\ UNCHANGED <<pageVars, workerVars, codecVars>>

\* extractWavData(wavData, lsbDepth) of the carrier
ProbeExtractWav(dx) ==
    /\ sPc = "carrier" /\ sKind = "audio"
    /\ sOut' = extractWavData(sWav, dx)
    /\ sXDepth' = dx
    /\ sPc' = "probed"
    /\ UNCHANGED <<sKind, sImage, sWav, sEnv, sDepth, sStego, sCapacity>>
    /\ UNCHANGED <<pageVars, workerVars, codecVars>>

ProbeNext ==
    \/ \E dx \in LsbDepths : ProbeExtractImage(dx)
    \/ \E dx \in LsbDepths : ProbeExtractWav(dx)

-----------------------------------------------------------------------------
(* The JavaScript fallback module (wasm/loader.ts stegFallback)              *)

\* header (payload.length, setUint32(0, .., true)) followed by the payload
FallbackPayload(payload) == LE32(Len(payload)) \o payload

\* The loop of stegFallback.embed over every byte of the raster: every fourth
\* byte is skipped, value c of the others (counted from 0) is entered with
\* bitIndex = min(total, lsbDepth * c) and written iff that is below total.
FallbackPixels(pixels, fullPayload, lsbDepth) ==
    LET total == Len(fullPayload) * 8
    IN [i \in 1..Len(pixels) |->
          LET c == 3 * ((i - 1) \div 4) + ((i - 1) % 4)
          IN IF i % 4 = 0 \/ lsbDepth * c >= total THEN pixels[i]
             ELSE EmbedChannelValue(pixels[i], fullPayload, lsbDepth * c, lsbDepth, total)]

\* stegFallback.embed; width, height and randomize are not read.
embed(imageData, width, height, payload, lsbDepth, randomize) ==
    FallbackPixels(imageData, FallbackPayload(payload), lsbDepth)

\* stegFallback.extract: length |= bits[i] << (31 - i) reads the first 32 bits
\* most significant bit first, in 32-bit signed arithmetic.
extract(imageData, width, height, lsbDepth) ==
    LET bitsLength == (Len(imageData) - (Len(imageData) \div 4)) * lsbDepth
        length == SignedBE32(ImageByte(imageData, lsbDepth, 0),
                             ImageByte(imageData, lsbDepth, 8),
                             ImageByte(imageData, lsbDepth, 16),
                             ImageByte(imageData, lsbDepth, 24))
        maxPossibleBytes == (bitsLength - 32) \div 8
    IN IF bitsLength < 32 THEN NULL
       ELSE IF length <= 0 \/ length > maxPossibleBytes THEN NULL
       ELSE Bytes([i \in 1..length |-> ImageByte(imageData, lsbDepth, 32 + (i - 1) * 8)])

\* stegFallback.embed_audio
embed_audio(audioData, payload, lsbDepth) ==
    EmbedSamples(audioData, FallbackPayload(payload), lsbDepth)

\* stegFallback.extract_audio
extract_audio(audioData, lsbDepth) ==
    LET bitsLength == Len(audioData) * lsbDepth
        length == SignedBE32(WavByte(audioData, lsbDepth, 0),
                             WavByte(audioData, lsbDepth, 8),
                             WavByte(audioData, lsbDepth, 16),
                             WavByte(audioData, lsbDepth, 24))
        maxPossibleBytes == (bitsLength - 32) \div 8
    IN IF bitsLength < 32 THEN NULL
       ELSE IF length <= 0 \/ length > maxPossibleBytes THEN NULL
       ELSE Bytes([i \in 1..length |-> WavByte(audioData, lsbDepth, 32 + (i - 1) * 8)])

\* The fallback applied to bounded carriers and payloads.
FallbackPatterns == {"zeros", "ones", "ramp"}

FallbackInit ==
    /\ sKind \in {"image", "audio"}
    /\ \E w \in {1, MaxW}, h \in 1..MaxH, pattern \in FallbackPatterns :
          /\ sImage = IF sKind = "image" THEN ImageOf(w, h, pattern) ELSE NoImage
          /\ sWav = IF sKind = "audio" THEN WavOf(3 * w * h, pattern) ELSE NoWav
    /\ sEnv \in Envelopes
    /\ sDepth \in LsbDepths
    /\ sStego = NoResult
    /\ sXDepth = 0
    /\ sOut = NULL
    /\ sPc = "fallback"
    /\ sCapacity = -1

\* stegFallback.embed(image, w, h, payload, d, randomize)
FallbackEmbedImage(randomize) ==
    /\ sPc = "fallback" /\ sKind = "image"
    /\ sStego' = [ok |-> TRUE,
                  image |-> [sImage EXCEPT !.data =
                                embed(sImage.data, sImage.width, sImage.height,
                                      sEnv, sDepth, randomize)]]
    /\ sPc' = "fallback embedded"
    /\ UNCHANGED <<sKind, sImage, sWav, sEnv, sDepth, sXDepth, sOut, sCapacity>>
    /\ UNCHANGED <<pageVars, workerVars, codecVars>>

\* stegFallback.embed_audio(samples, payload, d)
FallbackEmbedAudio ==
    /\ sPc = "fallback" /\ sKind = "audio"
    /\ sStego' = [ok |-> TRUE,
                  wav |-> [sWav EXCEPT !.samples = embed_audio(sWav.samples, sEnv, sDepth)]]
    /\ sPc' = "fallback embedded"
    /\ UNCHANGED <<sKind, sImage, sWav, sEnv, sDepth, sXDepth, sOut, sCapacity>>
    /\ UNCHANGED <<pageVars, workerVars, codecVars>>

\* stegFallback.extract(stego, w, h, d)
FallbackExtractImage(dx) ==
    /\ sPc = "fallback embedded" /\ sKind = "image"
    /\ sOut' = extract(sStego.image.data, sStego.image.width, sStego.image.height, dx)
    /\ sXDepth' = dx
    /\ sPc' = "fallback extracted"
    /\ UNCHANGED <<sKind, sImage, sWav, sEnv, sDepth, sStego, sCapacity>>
    /\ UNCHANGED <<pageVars, workerVars, codecVars>>

\* stegFallback.extract_audio(stego, d)
FallbackExtractAudio(dx) ==
    /\ sPc = "fallback embedded" /\ sKind = "audio"
    /\ sOut' = extract_audio(sStego.wav.samples, dx)
    /\ sXDepth' = dx
    /\ sPc' = "fallback extracted"
    /\ UNCHANGED <<sKind, sImage, sWav, sEnv, sDepth, sStego, sCapacity>>
    /\ UNCHANGED <<pageVars, workerVars, codecVars>>

FallbackNext ==
    \/ \E randomize \in BOOLEAN : FallbackEmbedImage(randomize)
    \/ FallbackEmbedAudio
    \/ \E dx \in LsbDepths : FallbackExtractImage(dx)
    \/ \E dx \in LsbDepths : FallbackExtractAudio(dx)

-----------------------------------------------------------------------------
(* Properties of the LSB engines, checked under SpecSteg                    *)

ImageFits == 8 * (8 + Len(sEnv)) <= sImage.width * sImage.height * 3 * sDepth
WavFits == 8 * (8 + Len(sEnv)) <= Len(sWav.samples) * sDepth

\* C3: image LSB round trip. For every raster, depth d in 1..4 and envelope of
\* L >= 1 bytes with 8*(8+L) <= W*H*3*d, embedData succeeds and extractData at
\* the same depth returns exactly the envelope bytes.
C3_ImageRoundTrip ==
    sKind = "image" =>
       /\ (sPc # "init" /\ ImageFits) => sStego.ok
       /\ (sPc = "extracted" /\ sXDepth = sDepth) => sOut = Bytes(sEnv)

\* A depth-3 embedding whose message ends inside a channel, into a raster that
\* is not all zero, extracted at depth 3.
C3_Witness ==
    /\ sKind = "image" /\ sPc = "extracted"
    /\ sDepth = 3 /\ sXDepth = 3 /\ Len(sEnv) = 2
    /\ sImage.data[1] = 255
    /\ sOut = Bytes(sEnv)

\* C4: audio LSB round trip. For every sequence of signed 16-bit samples, depth
\* d and envelope of L >= 1 bytes with 8*(8+L) <= N*d, embedWavData succeeds,
\* the low d bits of the samples in index order spell 'STEG' + big-endian
\* length + envelope, MSB first, every sample stays a signed 16-bit value and
\* extractWavData at the same depth returns exactly the envelope bytes.
C4_AudioRoundTrip ==
    sKind = "audio" =>
       /\ (sPc # "init" /\ WavFits) => sStego.ok
       /\ sPc \in {"embedded", "extracted"} =>
             /\ \A k \in 1..(8 * (8 + Len(sEnv))) :
                   WavBit(sStego.wav.samples, sDepth, k - 1)
                      = MessageBit(MAGIC_HEADER \o BE32(Len(sEnv)) \o sEnv, k - 1)
             /\ \A i \in 1..Len(sStego.wav.samples) :
                   sStego.wav.samples[i] \in -32768..32767
       /\ (sPc = "extracted" /\ sXDepth = sDepth) => sOut = Bytes(sEnv)

\* Negative samples, embedded and extracted at depth 4.
C4_Witness ==
    /\ sKind = "audio" /\ sPc = "extracted"
    /\ sDepth = 4 /\ sXDepth = 4
    /\ sWav.samples[1] < 0
    /\ sOut = Bytes(sEnv)

\* C7: depth mismatch. For every carrier (image or audio) and every envelope
\* embedded at depth 1, extraction at depth 2 returns null, never bytes.
C7_DepthMismatchNull ==
    (sPc = "extracted" /\ sDepth = 1 /\ sXDepth = 2) => sOut = NULL

\* The carrier itself held a valid depth-2 frame before the depth-1 embedding.
C7_Witness ==
    /\ sKind = "image" /\ sPc = "extracted"
    /\ sDepth = 1 /\ sXDepth = 2
    /\ extractData(sImage, 2) # NULL
    /\ sOut = NULL

\* ---------------------------------------------------------------------------
\* Text and JSON.  A string is the sequence of its character codes; the model's
\* alphabet is printable ASCII, where UTF-16 code units and UTF-8 bytes agree,
\* so TextEncoder maps a string to the same codes.  Control characters occur
\* only as inputs of the file-name filter.
\* ---------------------------------------------------------------------------
S_type == <<116, 121, 112, 101>>
S_text == <<116, 101, 120, 116>>
S_file == <<102, 105, 108, 101>>
S_timestamp == <<116, 105, 109, 101, 115, 116, 97, 109, 112>>
S_name == <<110, 97, 109, 101>>
S_mimeType == <<109, 105, 109, 101, 84, 121, 112, 101>>
S_null == <<110, 117, 108, 108>>
S_octetStream == <<97, 112, 112, 108, 105, 99, 97, 116, 105, 111, 110, 47,
                   111, 99, 116, 101, 116, 45, 115, 116, 114, 101, 97, 109>>
S_recoveredData == <<114, 101, 99, 111, 118, 101, 114, 101, 100, 95,
                     100, 97, 116, 97, 46, 98, 105, 110>>
S_recoveredFile == <<114, 101, 99, 111, 118, 101, 114, 101, 100, 95,
                     102, 105, 108, 101, 46, 98, 105, 110>>

\* JavaScript values that occur in metadata objects.
JStr(s) == [t |-> "string", s |-> s, n |-> 0, m |-> << >>]
JNum(n) == [t |-> "number", s |-> << >>, n |-> n, m |-> << >>]
\* NaN: a number that JSON.stringify writes as null.
JNaN == [t |-> "number", s |-> <<78, 97, 78>>, n |-> 0, m |-> << >>]
JNull == [t |-> "null", s |-> << >>, n |-> 0, m |-> << >>]
JUndef == [t |-> "undefined", s |-> << >>, n |-> 0, m |-> << >>]
\* An object is the sequence of its <<key, value>> members in insertion order.
JObj(members) == [t |-> "object", s |-> << >>, n |-> 0, m |-> members]

\* obj[key]: the last member with that key, undefined when there is none.
GetMember(obj, key) ==
    LET hits == {i \in 1..Len(obj.m) : obj.m[i][1] = key}
    IN  IF obj.t # "object" \/ hits = {} THEN JUndef
        ELSE obj.m[CHOOSE i \in hits : \A j \in hits : j <= i][2]

\* Truthiness of a value, as tested by `if (metadata.name && ...)`.
Truthy(v) == \/ v.t = "string" /\ v.s # << >>
             \/ v.t = "number" /\ v.n # 0
             \/ v.t = "object"

RECURSIVE Digits(_)
Digits(n) == IF n < 10 THEN <<48 + n>> ELSE Digits(n \div 10) \o <<48 + (n % 10)>>

RECURSIVE EscapeChars(_, _)
EscapeChars(s, i) ==
    IF i > Len(s) THEN << >>
    ELSE (IF s[i] \in {34, 92} THEN <<92, s[i]>> ELSE <<s[i]>>) \o EscapeChars(s, i + 1)

\* Mutant of JsonQuote: nothing is escaped.
JsonQuote_NoEscape(s) == <<34>> \o s \o <<34>>

\* JSON.stringify of a string: quotes, with '"' and '\' escaped.
JsonQuote(s) ==
    IF \A i \in 1..Len(s) : s[i] \notin {34, 92} THEN <<34>> \o s \o <<34>>
    ELSE <<34>> \o EscapeChars(s, 1) \o <<34>>

RECURSIVE JsonMembers(_, _, _)
JsonValue(v) ==
    CASE v.t = "string" -> JsonQuote(v.s)
      [] v.t = "number" -> IF v = JNaN THEN S_null ELSE Digits(v.n)
      [] OTHER -> S_null

\* Members whose value is undefined are skipped by JSON.stringify.
JsonMembers(m, i, first) ==
    IF i > Len(m) THEN << >>
    ELSE IF m[i][2].t = "undefined" THEN JsonMembers(m, i + 1, first)
    ELSE (IF first THEN << >> ELSE <<44>>)
         \o JsonQuote(m[i][1]) \o <<58>> \o JsonValue(m[i][2])
         \o JsonMembers(m, i + 1, FALSE)

\* JSON.stringify of a flat object.
JsonStringify(obj) == <<123>> \o JsonMembers(obj.m, 1, TRUE) \o <<125>>

\* JSON.parse, for the grammar the model uses: a flat object whose values
\* are strings, non-negative integers or null, or one such value alone, with
\* no white space.  Any other text is a syntax error.
ParseFail == [ok |-> FALSE, v |-> JUndef, next |-> 0]
Parsed(v, next) == [ok |-> TRUE, v |-> v, next |-> next]

\* TRUE iff the quote at j is preceded by an odd run of backslashes after i.
EscapedQuote(t, i, j) ==
    Cardinality({k \in 1..(j - i - 1) : \A q \in 1..k : t[j - q] = 92}) % 2 = 1

RECURSIVE Unescape(_, _)
Unescape(raw, i) ==
    IF i > Len(raw) THEN [ok |-> TRUE, s |-> << >>]
    ELSE IF raw[i] = 92
         THEN IF i + 1 <= Len(raw) /\ raw[i + 1] \in {34, 47, 92}
              THEN LET rest == Unescape(raw, i + 2)
                   IN  [ok |-> rest.ok, s |-> <<raw[i + 1]>> \o rest.s]
              ELSE [ok |-> FALSE, s |-> << >>]
         ELSE LET rest == Unescape(raw, i + 1)
              IN  [ok |-> rest.ok, s |-> <<raw[i]>> \o rest.s]

\* A string literal starting at the quote t[i].
ParseString(t, i) ==
    IF i > Len(t) \/ t[i] # 34 THEN ParseFail
    ELSE LET ends == {j \in (i + 1)..Len(t) : t[j] = 34 /\ ~EscapedQuote(t, i, j)}
         IN  IF ends = {} THEN ParseFail
             ELSE LET j == CHOOSE e \in ends : \A f \in ends : e <= f
                      raw == SubSeq(t, i + 1, j - 1)
                  IN  IF \E k \in 1..Len(raw) : raw[k] < 32 THEN ParseFail
                      ELSE IF \A k \in 1..Len(raw) : raw[k] # 92
                           THEN Parsed(JStr(raw), j + 1)
                           ELSE LET u == Unescape(raw, 1)
                                IN  IF u.ok THEN Parsed(JStr(u.s), j + 1)
                                    ELSE ParseFail

RECURSIVE NumberValue(_, _, _)
NumberValue(t, i, j) ==
    IF j < i THEN 0 ELSE 10 * NumberValue(t, i, j - 1) + (t[j] - 48)

\* An integer literal starting at t[i]: "0" or a digit run without leading 0.
ParseNumber(t, i) ==
    LET isDigit(k) == k <= Len(t) /\ t[k] >= 48 /\ t[k] <= 57
        stop == CHOOSE k \in i..(Len(t) + 1) :
                    /\ ~isDigit(k)
                    /\ \A q \in i..(k - 1) : isDigit(q)
    IN  IF ~isDigit(i) \/ (t[i] = 48 /\ stop > i + 1) \/ stop - i > 8
        THEN ParseFail
        ELSE Parsed(JNum(NumberValue(t, i, stop - 1)), stop)

ParseScalar(t, i) ==
    IF i > Len(t) THEN ParseFail
    ELSE IF t[i] = 34 THEN ParseString(t, i)
    ELSE IF i + 3 <= Len(t) /\ SubSeq(t, i, i + 3) = S_null THEN Parsed(JNull, i + 4)
    ELSE ParseNumber(t, i)

\* The members of an object after its opening brace or after a comma.
RECURSIVE ParseMembers(_, _, _)
ParseMembers(t, i, acc) ==
    LET key == ParseString(t, i)
    IN  IF ~key.ok \/ key.next > Len(t) \/ t[key.next] # 58 THEN ParseFail
        ELSE LET val == ParseScalar(t, key.next + 1)
                 members == Append(acc, <<key.v.s, val.v>>)
             IN  IF ~val.ok \/ val.next > Len(t) THEN ParseFail
                 ELSE IF t[val.next] = 125 THEN Parsed(JObj(members), val.next + 1)
                 ELSE IF t[val.next] = 44 THEN ParseMembers(t, val.next + 1, members)
                 ELSE ParseFail

JsonParse(t) ==
    LET r == IF t = << >> THEN ParseFail
             ELSE IF t[1] # 123 THEN ParseScalar(t, 1)
             ELSE IF Len(t) >= 2 /\ t[2] = 125 THEN Parsed(JObj(<< >>), 3)
             ELSE ParseMembers(t, 2, << >>)
    IN  [ok |-> r.ok /\ r.next = Len(t) + 1, v |-> r.v]

\* ---------------------------------------------------------------------------
\* Payload container (lib/payload-helper.ts).
\* ---------------------------------------------------------------------------
METADATA_VERSION == 1
MAX_METADATA_LENGTH == 10240
MAX_FILENAME_LENGTH == 255
MAX_MIMETYPE_LENGTH == 100

\* Date.now(), in ticks of the model's clock.
DateNow == 7

\* s.slice(0, n)
Take(s, n) == SubSeq(s, 1, Min(Len(s), n))

\* name.slice(0, 255).replace(/[<>:"/\\|?*\u0000-\u001f]/g, '_')
SanitizeName_Keep(name) == Take(name, MAX_FILENAME_LENGTH)

SanitizeName(name) ==
    LET cut == Take(name, MAX_FILENAME_LENGTH)
    IN  [i \in 1..Len(cut) |->
            IF cut[i] \in {60, 62, 58, 34, 47, 92, 124, 63, 42} \/ cut[i] < 32
            THEN 95 ELSE cut[i]]

Metadata(type, timestamp, name, mimeType) ==
    [type |-> type, timestamp |-> timestamp, name |-> name, mimeType |-> mimeType]

MetadataObject(meta) ==
    JObj(<< <<S_type, meta.type>>, <<S_timestamp, meta.timestamp>>,
            <<S_name, meta.name>>, <<S_mimeType, meta.mimeType>> >>)

Thrown(message) == [ok |-> FALSE, error |-> message]

\* sanitizedMeta of packPayload
SanitizeMetadata(metadata) ==
    Metadata(IF metadata.type = JStr(S_text) THEN JStr(S_text) ELSE JStr(S_file),
             IF metadata.timestamp.t = "number" THEN metadata.timestamp
             ELSE JNum(DateNow),
             IF Truthy(metadata.name) /\ metadata.name.t = "string"
             THEN JStr(SanitizeName(metadata.name.s)) ELSE JUndef,
             IF Truthy(metadata.mimeType) /\ metadata.mimeType.t = "string"
             THEN JStr(Take(metadata.mimeType.s, MAX_MIMETYPE_LENGTH))
             ELSE JUndef)

\* packPayload from the size check on, metaBytes being the encoded JSON
PackBuffer(data, metaBytes) ==
    IF Len(metaBytes) > MAX_METADATA_LENGTH THEN Thrown("Metadata too large")
    ELSE [ok |-> TRUE,
          bytes |-> <<METADATA_VERSION>> \o LE32(Len(metaBytes)) \o metaBytes \o data]

packPayload(data, metadata) ==
    PackBuffer(data, JsonStringify(MetadataObject(SanitizeMetadata(metadata))))

isValidMetadata(obj) ==
    LET type == GetMember(obj, S_type)
        name == GetMember(obj, S_name)
        mimeType == GetMember(obj, S_mimeType)
    IN  /\ obj.t = "object"
        /\ type = JStr(S_text) \/ type = JStr(S_file)
        /\ GetMember(obj, S_timestamp).t = "number"
        /\ name.t \in {"undefined", "string"}
        /\ mimeType.t \in {"undefined", "string"}

Unpacked(data, metadata) == [ok |-> TRUE, data |-> data, metadata |-> metadata]

InvalidPayload == [ok |-> FALSE, error |-> "Invalid payload format"]

\* unpackPayload from JSON.parse on: schema check, name sanitised again
UnpackParsed(buffer, offset, parsed) ==
    IF ~parsed.ok THEN InvalidPayload
    ELSE IF ~isValidMetadata(parsed.v) THEN InvalidPayload
    ELSE LET name == GetMember(parsed.v, S_name)
         IN  Unpacked(SubSeq(buffer, offset + 1, Len(buffer)),
                      Metadata(GetMember(parsed.v, S_type),
                               GetMember(parsed.v, S_timestamp),
                               IF Truthy(name) THEN JStr(SanitizeName(name.s)) ELSE name,
                               GetMember(parsed.v, S_mimeType)))

\* Mutant of unpackPayload: a version other than 1 is refused.
unpackPayload_LegacyRefused(buffer) ==
    IF Len(buffer) < 5 \/ buffer[1] # METADATA_VERSION THEN InvalidPayload
    ELSE LET metaLen == ReadLE32(buffer, 1)
         IN  IF metaLen <= 0 \/ metaLen > MAX_METADATA_LENGTH THEN InvalidPayload
             ELSE IF 5 + metaLen > Len(buffer) THEN InvalidPayload
             ELSE UnpackParsed(buffer, 5 + metaLen,
                               JsonParse(SubSeq(buffer, 6, 5 + metaLen)))

unpackPayload(buffer) ==
    IF Len(buffer) < 5 THEN InvalidPayload
    ELSE IF buffer[1] # METADATA_VERSION
    THEN Unpacked(buffer, Metadata(JStr(S_file), JNum(DateNow),
                                   JStr(S_recoveredData), JUndef))
    ELSE LET metaLen == ReadLE32(buffer, 1)
         IN  IF metaLen <= 0 \/ metaLen > MAX_METADATA_LENGTH THEN InvalidPayload
             ELSE IF 5 + metaLen > Len(buffer) THEN InvalidPayload
             ELSE UnpackParsed(buffer, 5 + metaLen,
                               JsonParse(SubSeq(buffer, 6, 5 + metaLen)))

\* ---------------------------------------------------------------------------
\* Crypto worker primitives (workers/crypto.worker.ts).  WebCrypto and the
\* compression streams are library code; the model gives them small byte-level
\* stand-ins that keep what the program relies on: the derived key depends on
\* password, salt and iteration count; the cipher is invertible under its key
\* and appends a 16-byte tag over key, IV and ciphertext; gzip is lossless,
\* framed and checksummed.
\* ---------------------------------------------------------------------------
FLAG_COMPRESSED == 1
FLAG_HIGH_SECURITY == 2
SALT_LENGTH == 16
IV_LENGTH == 12
TAG_LENGTH == 16
MIN_DATA_LENGTH == 49
GENERIC_ERROR == "Decryption failed - wrong password or corrupted data"

RECURSIVE SumRange(_, _, _)
SumRange(s, lo, hi) ==
    IF lo > hi THEN 0
    ELSE IF lo = hi THEN s[lo]
    ELSE LET mid == (lo + hi) \div 2
         IN  SumRange(s, lo, mid) + SumRange(s, mid + 1, hi)

SumBytes(s) == SumRange(s, 1, Len(s))

LE16(n) == << n % 256, (n \div 256) % 256 >>

\* PBKDF2-SHA256 key derivation followed by AES-GCM key import.
deriveKeyPBKDF2(password, salt, iterations) ==
    (7 * SumBytes(password) + 3 * SumBytes(salt) + (iterations \div 10000)) % 251

TagBytes(digest) == [j \in 1..TAG_LENGTH |-> (digest + 13 * j) % 256]

AuthTag(key, iv, ct) ==
    TagBytes((5 * key + SumBytes(iv) + SumBytes(ct) + Len(ct)) % 256)

KeyStream(key, iv, i) == key + iv[1 + ((i - 1) % IV_LENGTH)] + i

\* The ciphertext followed by its tag
Sealed(key, iv, ct) == ct \o AuthTag(key, iv, ct)

\* crypto.subtle.encrypt({name: 'AES-GCM', iv}, key, data)
AesGcmEncrypt(key, iv, data) ==
    Sealed(key, iv,
           << >> \o [i \in 1..Len(data) |-> (data[i] + KeyStream(key, iv, i)) % 256])

\* crypto.subtle.decrypt: rejects when the tag does not verify.
AesGcmDecrypt(key, iv, data) ==
    IF Len(data) < TAG_LENGTH THEN Thrown("OperationError")
    ELSE LET ct == SubSeq(data, 1, Len(data) - TAG_LENGTH)
             tag == SubSeq(data, Len(data) - TAG_LENGTH + 1, Len(data))
         IN  IF tag # AuthTag(key, iv, ct) THEN Thrown("OperationError")
             ELSE [ok |-> TRUE,
                   bytes |-> << >> \o [i \in 1..(Len(data) - TAG_LENGTH) |->
                                 (data[i] + 256 * Len(data) + 65536
                                  - KeyStream(key, iv, i)) % 256]]

GZIP_HEADER == <<31, 139, 8, 0, 0, 0, 0, 0, 0, 3>>
GzipCrc(data) == (31 * SumBytes(data) + Len(data)) % 65536

\* CompressionStream('gzip'): header, one stored block, CRC and size trailer.
compressData(data) ==
    GZIP_HEADER \o <<1>> \o LE16(Len(data)) \o LE16(65535 - Len(data)) \o data
    \o LE32(GzipCrc(data)) \o LE32(Len(data))

\* DecompressionStream('gzip'): the stream errors on a malformed member.
decompressData(data) ==
    LET n == Len(data) - 23
        body == SubSeq(data, 16, 15 + n)
    IN  IF n < 0 THEN Thrown("TypeError")
        ELSE IF SubSeq(data, 1, 3) # SubSeq(GZIP_HEADER, 1, 3) \/ data[11] # 1
        THEN Thrown("TypeError")
        ELSE IF SubSeq(data, 12, 13) # LE16(n) \/ SubSeq(data, 14, 15) # LE16(65535 - n)
        THEN Thrown("TypeError")
        ELSE IF SubSeq(data, 16 + n, 19 + n) # LE32(GzipCrc(body))
                \/ SubSeq(data, 20 + n, 23 + n) # LE32(n)
        THEN Thrown("TypeError")
        ELSE [ok |-> TRUE, bytes |-> body]

\* crypto.getRandomValues: one of the byte strings the model draws from.
RandomSeeds == {200}
getRandomValues(n, seed) == [i \in 1..n |-> (seed * 7 + i * 29) % 256]

Iterations(useHighSecurity) == IF useHighSecurity THEN 310000 ELSE 100000

PackEnvelope(flagsByte, salt, iv, ciphertext) ==
    <<flagsByte>> \o LE32(Len(salt)) \o salt \o iv \o ciphertext

\* The value handleEncrypt sends with COMPLETE, given the random salt and IV.
EncryptResult(payload, password, useHighSecurity, compress, salt, iv) ==
    LET dataToEncrypt == IF compress THEN compressData(payload) ELSE payload
        key == deriveKeyPBKDF2(password, salt, Iterations(useHighSecurity))
        flagsByte == (IF compress THEN FLAG_COMPRESSED ELSE 0)
                     + (IF useHighSecurity THEN FLAG_HIGH_SECURITY ELSE 0)
    IN  PackEnvelope(flagsByte, salt, iv, AesGcmEncrypt(key, iv, dataToEncrypt))

\* Framing checks that do not look at the salt-length field.
FramingValid_AnySaltLength(data) ==
    /\ Len(data) >= MIN_DATA_LENGTH
    /\ 5 + SALT_LENGTH <= Len(data)
    /\ 5 + SALT_LENGTH + IV_LENGTH <= Len(data)
    /\ 5 + SALT_LENGTH + IV_LENGTH + TAG_LENGTH <= Len(data)

\* Envelope framing checks of handleDecrypt, before any key derivation.
FramingValid(data) ==
    /\ Len(data) >= MIN_DATA_LENGTH
    /\ ReadLE32(data, 1) = SALT_LENGTH
    /\ 5 + SALT_LENGTH <= Len(data)
    /\ 5 + SALT_LENGTH + IV_LENGTH <= Len(data)
    /\ 5 + SALT_LENGTH + IV_LENGTH + TAG_LENGTH <= Len(data)

\* handleDecrypt after crypto.subtle.decrypt: decompression when flagged
Decompressed(isCompressed, plaintext) ==
    IF ~plaintext.ok THEN plaintext
    ELSE IF isCompressed THEN decompressData(plaintext.bytes)
    ELSE plaintext

\* any error inside the try block is reported as GENERIC_ERROR
DecryptOutcome(result) ==
    IF ~result.ok THEN Thrown(GENERIC_ERROR) ELSE [ok |-> TRUE, bytes |-> result.bytes]

\* Mutant of DecryptResult: the key is always derived with 100000 iterations.
DecryptResult_FixedIterations(packedData, password) ==
    IF ~FramingValid(packedData) THEN Thrown(GENERIC_ERROR)
    ELSE LET flags == packedData[1]
             isCompressed == BitAt(flags, 0) = 1
             salt == SubSeq(packedData, 6, 5 + SALT_LENGTH)
             iv == SubSeq(packedData, 6 + SALT_LENGTH, 5 + SALT_LENGTH + IV_LENGTH)
             encryptedData == SubSeq(packedData, 6 + SALT_LENGTH + IV_LENGTH,
                                     Len(packedData))
         IN  DecryptOutcome(
                 Decompressed(isCompressed,
                     AesGcmDecrypt(deriveKeyPBKDF2(password, salt, Iterations(FALSE)),
                                   iv, encryptedData)))

\* The outcome of handleDecrypt: the COMPLETE result or the ERROR message.
DecryptResult(packedData, password) ==
    IF ~FramingValid(packedData) THEN Thrown(GENERIC_ERROR)
    ELSE LET flags == packedData[1]
             isCompressed == BitAt(flags, 0) = 1
             isHighSecurity == BitAt(flags, 1) = 1
             salt == SubSeq(packedData, 6, 5 + SALT_LENGTH)
             iv == SubSeq(packedData, 6 + SALT_LENGTH, 5 + SALT_LENGTH + IV_LENGTH)
             encryptedData == SubSeq(packedData, 6 + SALT_LENGTH + IV_LENGTH,
                                     Len(packedData))
         IN  DecryptOutcome(
                 Decompressed(isCompressed,
                     AesGcmDecrypt(deriveKeyPBKDF2(password, salt,
                                                   Iterations(isHighSecurity)),
                                   iv, encryptedData)))

\* ---------------------------------------------------------------------------
\* Carrier files.  A file's content is its byte sequence; offsets below are
\* the source's 0-based offsets.
\* ---------------------------------------------------------------------------
\* data[off] of a Uint8Array: undefined (stored as 0) outside the array.
ByteAt(data, off) == IF off >= 0 /\ off < Len(data) THEN data[off + 1] ELSE 0

\* DataView.setInt32(.., n, true)
LE32Signed(n) ==
    IF n >= 0 THEN LE32(n)
    ELSE LET m == LE32((0 - n) - 1) IN [i \in 1..4 |-> 255 - m[i]]

\* DataView.getInt32(off, true)
ReadLE32Signed(b, off) ==
    IF b[off + 4] < 128 THEN ReadLE32(b, off)
    ELSE 0 - (1 + (255 - b[off + 1]) + 256 * (255 - b[off + 2])
                + 65536 * (255 - b[off + 3]) + 16777216 * (255 - b[off + 4]))

ReadLE16(b, off) == b[off + 1] + 256 * b[off + 2]

Abs(n) == IF n < 0 THEN 0 - n ELSE n

Decoded(image) == [ok |-> TRUE, image |-> image]

\* lib/bmp-codec.ts
decodeBMP(buffer) ==
    IF Len(buffer) < 54 THEN Thrown("Invalid BMP file: file too small")
    ELSE IF buffer[1] # 66 \/ buffer[2] # 77
    THEN Thrown("Invalid BMP file: missing BM signature")
    ELSE LET dataOffset == ReadLE32(buffer, 10)
             width == ReadLE32Signed(buffer, 18)
             height == ReadLE32Signed(buffer, 22)
             bitsPerPixel == ReadLE16(buffer, 28)
             bytesPerPixel == bitsPerPixel \div 8
             absHeight == Abs(height)
             isTopDown == height < 0
             rowSize == ((width * bytesPerPixel + 3) \div 4) * 4
             srcOffset(p) ==
                 LET y == p \div width
                     x == p % width
                     srcY == IF isTopDown THEN y ELSE absHeight - 1 - y
                 IN  dataOffset + srcY * rowSize + x * bytesPerPixel
         IN  IF width <= 0 \/ width > 32768 \/ absHeight <= 0 \/ absHeight > 32768
             THEN Thrown("Invalid BMP file: unreasonable dimensions")
             ELSE IF dataOffset >= Len(buffer)
             THEN Thrown("Invalid BMP file: data offset exceeds file size")
             ELSE IF bitsPerPixel # 24 /\ bitsPerPixel # 32
             THEN Thrown("Unsupported BMP format")
             ELSE Decoded([width |-> width, height |-> absHeight,
                  data |-> [i \in 1..(width * absHeight * 4) |->
                      LET p == (i - 1) \div 4
                          c == (i - 1) % 4
                      IN  CASE c = 0 -> ByteAt(buffer, srcOffset(p) + 2)
                            [] c = 1 -> ByteAt(buffer, srcOffset(p) + 1)
                            [] c = 2 -> ByteAt(buffer, srcOffset(p))
                            [] OTHER -> IF bytesPerPixel = 4
                                        THEN ByteAt(buffer, srcOffset(p) + 3)
                                        ELSE 255]])

\* Mutant of encodeBMP: the header announces a bottom-up image.
encodeBMP_BottomUp(pixels, width, height) ==
    LET pixelDataSize == width * 4 * height
        headerSize == 54
    IN  <<66, 77>> \o LE32(headerSize + pixelDataSize) \o LE32(0) \o LE32(headerSize)
        \o LE32(40) \o LE32Signed(width) \o LE32Signed(height)
        \o LE16(1) \o LE16(32) \o LE32(0) \o LE32(pixelDataSize)
        \o LE32(2835) \o LE32(2835) \o LE32(0) \o LE32(0)
        \o [i \in 1..pixelDataSize |->
               LET p == (i - 1) \div 4
                   c == (i - 1) % 4
               IN  CASE c = 0 -> pixels[4 * p + 3]
                     [] c = 1 -> pixels[4 * p + 2]
                     [] c = 2 -> pixels[4 * p + 1]
                     [] OTHER -> pixels[4 * p + 4]]

\* The 32-bit top-down BMP written for the stego image.
encodeBMP(pixels, width, height) ==
    LET pixelDataSize == width * 4 * height
        headerSize == 54
    IN  <<66, 77>> \o LE32(headerSize + pixelDataSize) \o LE32(0) \o LE32(headerSize)
        \o LE32(40) \o LE32Signed(width) \o LE32Signed(0 - height)
        \o LE16(1) \o LE16(32) \o LE32(0) \o LE32(pixelDataSize)
        \o LE32(2835) \o LE32(2835) \o LE32(0) \o LE32(0)
        \o [i \in 1..pixelDataSize |->
               LET p == (i - 1) \div 4
                   c == (i - 1) % 4
               IN  CASE c = 0 -> pixels[4 * p + 3]
                     [] c = 1 -> pixels[4 * p + 2]
                     [] c = 2 -> pixels[4 * p + 1]
                     [] OTHER -> pixels[4 * p + 4]]

S_RIFF == <<82, 73, 70, 70>>
S_WAVE == <<87, 65, 86, 69>>
S_fmt == <<102, 109, 116, 32>>
S_data == <<100, 97, 116, 97>>

NoChunks == [sampleRate |-> 0, channels |-> 0, bitsPerSample |-> 0,
             dataOffset |-> 0, dataSize |-> 0, error |-> ""]

\* The chunk loop of decodeWav, from the 0-based offset on.
RECURSIVE WavChunks(_, _, _)
WavChunks(data, offset, acc) ==
    IF offset >= Len(data) THEN acc
    ELSE IF offset + 8 > Len(data) THEN [acc EXCEPT !.error = "RangeError"]
    ELSE LET chunkId == [i \in 1..4 |-> ByteAt(data, offset + i - 1)]
             chunkSize == ReadLE32(data, offset + 4)
             body == offset + 8
             next == IF chunkSize >= Len(data) THEN Len(data)
                     ELSE body + chunkSize + (chunkSize % 2)
         IN  IF chunkId = S_fmt
             THEN IF body + 16 > Len(data) THEN [acc EXCEPT !.error = "RangeError"]
                  ELSE IF ReadLE16(data, body) # 1
                  THEN [acc EXCEPT !.error = "Unsupported audio format"]
                  ELSE IF ReadLE16(data, body + 14) # 16
                  THEN [acc EXCEPT !.error = "Unsupported bit depth"]
                  ELSE WavChunks(data, next,
                           [acc EXCEPT !.channels = ReadLE16(data, body + 2),
                                       !.sampleRate = ReadLE32(data, body + 4),
                                       !.bitsPerSample = 16])
             ELSE IF chunkId = S_data
             THEN WavChunks(data, next,
                      [acc EXCEPT !.dataOffset = body, !.dataSize = chunkSize])
             ELSE WavChunks(data, next, acc)

\* decodeWav reading each sample with getUint16 instead of getInt16.
decodeWav_Unsigned(buffer) ==
    IF Len(buffer) < 44 THEN Thrown("Invalid WAV file: file too small")
    ELSE IF SubSeq(buffer, 1, 4) # S_RIFF THEN Thrown("Invalid WAV file: missing RIFF header")
    ELSE IF SubSeq(buffer, 9, 12) # S_WAVE THEN Thrown("Invalid WAV file: missing WAVE marker")
    ELSE LET c == WavChunks(buffer, 12, NoChunks)
             numSamples == c.dataSize \div 2
         IN  IF c.error # "" THEN Thrown(c.error)
             ELSE IF c.dataOffset = 0 \/ c.sampleRate = 0
             THEN Thrown("Invalid WAV file: missing fmt or data chunk")
             ELSE IF \/ c.dataSize > Len(buffer)
                     \/ c.dataOffset + 2 * ((c.dataSize + 1) \div 2) > Len(buffer)
             THEN Thrown("RangeError")
             ELSE [ok |-> TRUE,
                   wav |-> [samples |-> [i \in 1..numSamples |->
                                ReadLE16(buffer, c.dataOffset + 2 * (i - 1))],
                            sampleRate |-> c.sampleRate,
                            channels |-> c.channels,
                            bitsPerSample |-> c.bitsPerSample]]

\* lib/wav-codec.ts
decodeWav(buffer) ==
    IF Len(buffer) < 44 THEN Thrown("Invalid WAV file: file too small")
    ELSE IF SubSeq(buffer, 1, 4) # S_RIFF THEN Thrown("Invalid WAV file: missing RIFF header")
    ELSE IF SubSeq(buffer, 9, 12) # S_WAVE THEN Thrown("Invalid WAV file: missing WAVE marker")
    ELSE LET c == WavChunks(buffer, 12, NoChunks)
             numSamples == c.dataSize \div 2
         IN  IF c.error # "" THEN Thrown(c.error)
             ELSE IF c.dataOffset = 0 \/ c.sampleRate = 0
             THEN Thrown("Invalid WAV file: missing fmt or data chunk")
             ELSE IF \/ c.dataSize > Len(buffer)
                     \/ c.dataOffset + 2 * ((c.dataSize + 1) \div 2) > Len(buffer)
             THEN Thrown("RangeError")
             ELSE [ok |-> TRUE,
                   wav |-> [samples |-> [i \in 1..numSamples |->
                                ToInt16(ReadLE16(buffer, c.dataOffset + 2 * (i - 1)))],
                            sampleRate |-> c.sampleRate,
                            channels |-> c.channels,
                            bitsPerSample |-> c.bitsPerSample]]

encodeWav(wavData) ==
    LET dataSize == Len(wavData.samples) * 2
    IN  S_RIFF \o LE32(44 + dataSize - 8) \o S_WAVE
        \o S_fmt \o LE32(16) \o LE16(1) \o LE16(wavData.channels)
        \o LE32(wavData.sampleRate) \o LE32(wavData.sampleRate * wavData.channels * 2)
        \o LE16(wavData.channels * 2) \o LE16(wavData.bitsPerSample)
        \o S_data \o LE32(dataSize)
        \o [i \in 1..dataSize |->
               LET u == U16(wavData.samples[(i + 1) \div 2])
               IN  IF i % 2 = 1 THEN u % 256 ELSE u \div 256]

\* lib/png-encoder.ts.  CompressionStream('deflate') is modelled as a zlib
\* stream of one stored block; chunk CRCs, which decodePNG skips, and the
\* Adler checksum are small sums.
PNG_SIGNATURE == <<137, 80, 78, 71, 13, 10, 26, 10>>
S_IHDR == <<73, 72, 68, 82>>
S_IDAT == <<73, 68, 65, 84>>
S_IEND == <<73, 69, 78, 68>>

Checksum32(data) == BE32((SumBytes(data) * 31 + Len(data)) % 65521)

compress(data) ==
    <<120, 156, 1>> \o LE16(Len(data)) \o LE16(65535 - Len(data)) \o data
    \o Checksum32(data)

decompress(data) ==
    LET n == Len(data) - 11
        body == SubSeq(data, 8, 7 + n)
    IN  IF n < 0 \/ SubSeq(data, 1, 3) # <<120, 156, 1>> THEN Thrown("TypeError")
        ELSE IF SubSeq(data, 4, 5) # LE16(n) \/ SubSeq(data, 6, 7) # LE16(65535 - n)
        THEN Thrown("TypeError")
        ELSE IF SubSeq(data, 8 + n, 11 + n) # Checksum32(body) THEN Thrown("TypeError")
        ELSE [ok |-> TRUE, bytes |-> body]

writeChunk(type, data) ==
    BE32(Len(data)) \o type \o data \o Checksum32(type \o data)

\* Mutant of encodePNG: the header announces colour type 2 (no alpha).
encodePNG_Truecolour(pixels, width, height) ==
    LET ihdrData == BE32(width) \o BE32(height) \o <<8, 2, 0, 0, 0>>
        rowSize == width * 4
        rawData == [i \in 1..((rowSize + 1) * height) |->
                       LET y == (i - 1) \div (rowSize + 1)
                           k == (i - 1) % (rowSize + 1)
                       IN  IF k = 0 THEN 0 ELSE pixels[y * rowSize + k]]
    IN  PNG_SIGNATURE \o writeChunk(S_IHDR, ihdrData)
        \o writeChunk(S_IDAT, compress(rawData)) \o writeChunk(S_IEND, << >>)

encodePNG(pixels, width, height) ==
    LET ihdrData == BE32(width) \o BE32(height) \o <<8, 6, 0, 0, 0>>
        rowSize == width * 4
        rawData == [i \in 1..((rowSize + 1) * height) |->
                       LET y == (i - 1) \div (rowSize + 1)
                           k == (i - 1) % (rowSize + 1)
                       IN  IF k = 0 THEN 0 ELSE pixels[y * rowSize + k]]
    IN  PNG_SIGNATURE \o writeChunk(S_IHDR, ihdrData)
        \o writeChunk(S_IDAT, compress(rawData)) \o writeChunk(S_IEND, << >>)

ReadBE32(b, off) ==
    IF b[off + 1] >= 128 THEN 2147483647
    ELSE 16777216 * b[off + 1] + 65536 * b[off + 2] + 256 * b[off + 3] + b[off + 4]

NoPngChunks == [width |-> 0, height |-> 0, colorType |-> 0, idat |-> << >>,
                error |-> ""]

\* The chunk loop of decodePNG, from the 0-based offset on.
RECURSIVE PngChunks(_, _, _)
PngChunks(data, offset, acc) ==
    IF offset >= Len(data) THEN acc
    ELSE IF offset + 4 > Len(data) THEN [acc EXCEPT !.error = "RangeError"]
    ELSE LET length == ReadBE32(data, offset)
             type == [i \in 1..4 |-> ByteAt(data, offset + 4 + i - 1)]
             body == offset + 8
             next == IF length >= Len(data) THEN Len(data) ELSE body + length + 4
         IN  IF type = S_IHDR
             THEN IF body + 13 > Len(data) THEN [acc EXCEPT !.error = "RangeError"]
                  ELSE PngChunks(data, next,
                           [acc EXCEPT !.width = ReadBE32(data, body),
                                       !.height = ReadBE32(data, body + 4),
                                       !.colorType = data[body + 10]])
             ELSE IF type = S_IDAT
             THEN PngChunks(data, next,
                      [acc EXCEPT !.idat = @ \o SubSeq(data, body + 1,
                                                       Min(body + length, Len(data)))])
             ELSE IF type = S_IEND THEN acc
             ELSE PngChunks(data, next, acc)

paethPredictor(a, b, c) ==
    LET p == a + b - c
        pa == Abs(p - a)
        pb == Abs(p - b)
        pc == Abs(p - c)
    IN  IF pa <= pb /\ pa <= pc THEN a ELSE IF pb <= pc THEN b ELSE c

\* Inverse filter of one scanline, byte x on; acc holds the bytes before x.
RECURSIVE ReconRow(_, _, _, _, _, _)
ReconRow(cur, prevRow, filterType, channels, x, acc) ==
    IF x > Len(cur) THEN acc
    ELSE LET left == IF x > channels THEN acc[x - channels] ELSE 0
             up == prevRow[x]
             upLeft == IF x > channels THEN prevRow[x - channels] ELSE 0
             v == CASE filterType = 1 -> (cur[x] + left) % 256
                    [] filterType = 2 -> (cur[x] + up) % 256
                    [] filterType = 3 -> (cur[x] + ((left + up) \div 2)) % 256
                    [] filterType = 4 -> (cur[x] + paethPredictor(left, up, upLeft)) % 256
                    [] OTHER -> cur[x]
         IN  ReconRow(cur, prevRow, filterType, channels, x + 1, Append(acc, v))

\* Scanline reconstruction of decodePNG, row y on; recon holds the
\* reconstructed scanlines 0..y-1, one after the other.
RECURSIVE ReconRows(_, _, _, _, _, _)
ReconRows(decompressed, width, height, channels, y, recon) ==
    IF y >= height THEN recon
    ELSE LET filterRowSize == width * channels
             dOffset == y * (filterRowSize + 1)
             filterType == ByteAt(decompressed, dOffset)
             cur == << >> \o [i \in 1..filterRowSize |-> ByteAt(decompressed, dOffset + i)]
             prevRow == IF y = 0 THEN [i \in 1..filterRowSize |-> 0]
                        ELSE SubSeq(recon, (y - 1) * filterRowSize + 1, y * filterRowSize)
         IN  ReconRows(decompressed, width, height, channels, y + 1,
                       recon \o (IF filterType \in 1..4
                                 THEN ReconRow(cur, prevRow, filterType, channels, 1, << >>)
                                 ELSE cur))

\* pixels[pOffset + c] of decodePNG: the colour channels of the reconstructed
\* scanlines, alpha 255 where the image has none.
RowPixels(recon, width, height, channels) ==
    [i \in 1..(width * height * 4) |->
        LET x == (i - 1) \div 4
            c == (i - 1) % 4
        IN  IF c = 3 /\ channels # 4 THEN 255 ELSE recon[x * channels + c + 1]]

\* decodePNG after decompression of the IDAT data
DecodeScanlines(c, inflated, channels) ==
    IF ~inflated.ok THEN Thrown(inflated.error)
    ELSE Decoded([width |-> c.width, height |-> c.height,
                  data |-> RowPixels(ReconRows(inflated.bytes, c.width, c.height,
                                               channels, 0, << >>),
                                     c.width, c.height, channels)])

\* decodePNG after the chunk loop
DecodeChunks(c) ==
    IF c.error # "" THEN Thrown(c.error)
    ELSE IF c.width = 0 \/ c.height = 0 THEN Thrown("Invalid PNG dimensions")
    ELSE DecodeScanlines(c, decompress(c.idat), IF c.colorType = 2 THEN 3 ELSE 4)

decodePNG(buffer) ==
    IF SubSeq(buffer, 1, Min(4, Len(buffer))) # SubSeq(PNG_SIGNATURE, 1, 4)
    THEN Thrown("Invalid PNG signature")
    ELSE DecodeChunks(PngChunks(buffer, 8, NoPngChunks))

\* ---------------------------------------------------------------------------
\* Files and the carrier loaders of the pages (pages/Encode.tsx,
\* lib/steganography.ts).  A File is [name, type, bytes], name and MIME type
\* being strings.
\* ---------------------------------------------------------------------------
S_imagePng == <<105, 109, 97, 103, 101, 47, 112, 110, 103>>
S_imageBmp == <<105, 109, 97, 103, 101, 47, 98, 109, 112>>
S_imageJpeg == <<105, 109, 97, 103, 101, 47, 106, 112, 101, 103>>
S_audioWav == <<97, 117, 100, 105, 111, 47, 119, 97, 118>>
S_audioWave == <<97, 117, 100, 105, 111, 47, 119, 97, 118, 101>>
S_dotWav == <<46, 119, 97, 118>>
S_dotBmp == <<46, 98, 109, 112>>
S_copyDot == <<95, 99, 111, 112, 121, 46>>
S_png == <<112, 110, 103>>
S_bmp == <<98, 109, 112>>
S_wav == <<119, 97, 118>>

\* A File: its name, its MIME type, its content and its size in bytes.
File(name, type, bytes) ==
    [name |-> name, type |-> type, bytes |-> bytes, size |-> Len(bytes)]

\* A file that is larger than the part of it that a decoder reads (chunks
\* the decoders skip follow it); bytes is that part.
FileOfSize(name, type, bytes, size) ==
    [name |-> name, type |-> type, bytes |-> bytes, size |-> size]

\* constants.ts: the documented ceilings, in bytes.
FILE_LIMITS ==
    [desktop |-> [imageCarrier |-> 100 * 1024 * 1024,
                  audioCarrier |-> 200 * 1024 * 1024,
                  payload |-> 50 * 1024 * 1024],
     mobile  |-> [imageCarrier |-> 20 * 1024 * 1024,
                  audioCarrier |-> 20 * 1024 * 1024,
                  payload |-> 10 * 1024 * 1024]]

\* FileDropzone.validateFile: file.size / (1024 * 1024) > maxSize is refused,
\* and the page's onFileSelect is called with null.
validateFile(file, maxSize) ==
    IF file.size > maxSize * 1024 * 1024 THEN "File too large" ELSE "null"

\* maxSize={100} of the carrier drop zones of both pages.
CarrierDropzoneMaxSize == 100

NoFile == File(<< >>, << >>, << >>)

EndsWith(s, suffix) ==
    Len(s) >= Len(suffix) /\ SubSeq(s, Len(s) - Len(suffix) + 1, Len(s)) = suffix

ToLowerCase(s) == [i \in 1..Len(s) |-> IF s[i] >= 65 /\ s[i] <= 90 THEN s[i] + 32 ELSE s[i]]

\* name.replace(/\.[^/.]+$/, '')
StripExtension(name) ==
    LET dots == {i \in 1..(Len(name) - 1) :
                    name[i] = 46 /\ \A j \in (i + 1)..Len(name) : name[j] \notin {46, 47}}
    IN  IF dots = {} THEN name
        ELSE SubSeq(name, 1, (CHOOSE i \in dots : TRUE) - 1)

detectCarrierType(file) ==
    IF file.type = S_imagePng \/ file.type = S_imageBmp THEN "image"
    ELSE IF file.type = S_audioWav \/ file.type = S_audioWave \/ EndsWith(file.name, S_dotWav)
    THEN "audio"
    ELSE "null"

\* loadImage: the pure decoders first; when they throw or do not apply, the
\* browser's own decoder is asked, which rejects what is no image.
loadImage(file) ==
    LET png == decodePNG(file.bytes)
        bmp == decodeBMP(file.bytes)
    IN  IF file.type = S_imagePng /\ png.ok THEN png
        ELSE IF (file.type = S_imageBmp \/ EndsWith(ToLowerCase(file.name), S_dotBmp))
                /\ bmp.ok
        THEN bmp
        ELSE Thrown("Failed to load image")

\* The MIME type a browser gives a file picked from disk, by its extension.
BrowserType(name) ==
    LET lower == ToLowerCase(name)
    IN  IF EndsWith(lower, <<46>> \o S_png) THEN S_imagePng
        ELSE IF EndsWith(lower, S_dotBmp) THEN S_imageBmp
        ELSE IF EndsWith(lower, S_dotWav) THEN S_audioWav
        ELSE << >>

\* Carrier pixels and samples of the model's input files.
CarrierByte(i) == (i * 37 + 11) % 256
CarrierSample(i) == ToInt16(i * 4099 + 7)

\* A truecolour PNG (colour type 2) with Sub-filtered scanlines, as another
\* program may have written it.
ForeignPng(width, height) ==
    LET rowSize == width * 3
        raw(y, k) == CarrierByte(y * rowSize + k)
        rawData == [i \in 1..((rowSize + 1) * height) |->
                       LET y == (i - 1) \div (rowSize + 1)
                           k == (i - 1) % (rowSize + 1)
                       IN  IF k = 0 THEN 1
                           ELSE IF k <= 3 THEN raw(y, k)
                           ELSE (raw(y, k) + 256 - raw(y, k - 3)) % 256]
    IN  PNG_SIGNATURE
        \o writeChunk(S_IHDR, BE32(width) \o BE32(height) \o <<8, 2, 0, 0, 0>>)
        \o writeChunk(S_IDAT, compress(rawData)) \o writeChunk(S_IEND, << >>)

\* A 24-bit bottom-up BMP with padded rows.
ForeignBmp(width, height) ==
    LET rowSize == ((width * 3 + 3) \div 4) * 4
        pixelDataSize == rowSize * height
    IN  <<66, 77>> \o LE32(54 + pixelDataSize) \o LE32(0) \o LE32(54)
        \o LE32(40) \o LE32Signed(width) \o LE32Signed(height)
        \o LE16(1) \o LE16(24) \o LE32(0) \o LE32(pixelDataSize)
        \o LE32(2835) \o LE32(2835) \o LE32(0) \o LE32(0)
        \o [i \in 1..pixelDataSize |->
               IF (i - 1) % rowSize >= width * 3 THEN 0 ELSE CarrierByte(i)]

ForeignWav(numSamples) ==
    encodeWav([samples |-> [i \in 1..numSamples |-> CarrierSample(i)],
               sampleRate |-> 8000, channels |-> 1, bitsPerSample |-> 16])

\* ---------------------------------------------------------------------------
\* Spec: the Encode and Decode pages (pages/Encode.tsx).
\* ---------------------------------------------------------------------------
\* Inputs a user can supply.
PasswordA == [i \in 1..12 |-> 96 + i]
PasswordB == [i \in 1..12 |-> 97 + i]
PasswordShort == <<112, 119>>

TextPayloads == {<<104, 105>>}

\* "a:b.txt" of a MIME type longer than 100 characters, and a file whose name
\* is longer than 255 characters, holds filtered characters and has no type.
LongType == [i \in 1..101 |-> IF i = 5 THEN 47 ELSE 97 + (i % 26)]
LongName == [i \in 1..256 |-> IF i % 64 = 0 THEN 42 ELSE 65 + (i % 26)]

PayloadFiles ==
    { File(<<97, 58, 98, 46, 116, 120, 116>>, LongType, [i \in 1..104 |-> (151 * i) % 256]),
      File(LongName, << >>, <<7>>) }

\* 6 x 13 pixels as PNG ("photo.png"), 10 x 31 pixels as BMP ("scan.bmp"), a
\* PNG of type image/png that is named "shot.bmp", 232 samples as WAV, a WAV
\* file of 50 MiB ("long.wav"), a PNG file of 150 MiB ("big.png"), a file
\* that is no WAV but is typed audio/wav ("bad.wav"), and a JPEG, which the
\* pages do not support.
CarrierFiles ==
    { File(<<112, 104, 111, 116, 111, 46, 112, 110, 103>>, S_imagePng, ForeignPng(6, 13)),
      File(<<115, 99, 97, 110, 46, 98, 109, 112>>, S_imageBmp, ForeignBmp(10, 31)),
      File(<<115, 104, 111, 116, 46, 98, 109, 112>>, S_imagePng, ForeignPng(6, 13)),
      File(<<99, 108, 105, 112, 46, 119, 97, 118>>, S_audioWav, ForeignWav(232)),
      FileOfSize(<<108, 111, 110, 103, 46, 119, 97, 118>>, S_audioWav, ForeignWav(64),
                 50 * 1024 * 1024),
      File(<<98, 97, 100, 46, 119, 97, 118>>, S_audioWav, S_RIFF),
      FileOfSize(<<98, 105, 103, 46, 112, 110, 103>>, S_imagePng, ForeignPng(6, 13),
                 150 * 1024 * 1024),
      File(<<112, 105, 99, 46, 106, 112, 103>>, S_imageJpeg, <<255, 216, 255>>) }

NoToast == [title |-> "", description |-> ""]
Toast(title, description) == [title |-> title, description |-> description]

NoBlob == [present |-> FALSE, type |-> << >>, bytes |-> << >>]
Blob(bytes, type) == [present |-> TRUE, type |-> type, bytes |-> bytes]

NoRequest == [type |-> "NONE"]
NoResponse == [type |-> "NONE"]

NoEncLocals == [maxCapacity |-> 0, imageData |-> NoImage, wavData |-> NoWav,
                packedPayload |-> << >>]

\* What the last handleEncode run was given and did.  embedDepth is the depth
\* passed to embedData / embedWavData, 0 while embed has not been called.
NoEncLog == [started |-> FALSE, expert |-> FALSE, payload |-> << >>,
             metadata |-> Metadata(JUndef, JUndef, JUndef, JUndef),
             password |-> << >>, capacity |-> 0, envelope |-> << >>,
             embedDepth |-> 0, outcome |-> "none"]

NoDecLocals == [imageData |-> NoImage, wavData |-> NoWav]

\* What the last handleDecode run did.  extractDepth is the depth passed to
\* extractData / extractWavData, 0 while extract has not been called.
NoDecLog == [started |-> FALSE, expert |-> FALSE, extractDepth |-> 0,
             extracted |-> NULL, decrypted |-> FALSE, plaintext |-> << >>,
             unpacked |-> InvalidPayload, outcome |-> "none"]

NoCryptoLog == [keyDerivations |-> 0, encryptions |-> 0, decryptions |-> 0]

\* The state of a freshly mounted Encode page.
EncodeMounted ==
    /\ carrierFile = NoFile
    /\ carrierType = "null"
    /\ payloadText = << >>
    /\ payloadFile = NoFile
    /\ encPassword = << >>
    /\ encConfirm = << >>
    /\ encLsbDepth = 1
    /\ useArgon2 = FALSE
    /\ encPc = "idle"
    /\ encLocals = NoEncLocals
    /\ encLog = NoEncLog

\* The state of a freshly mounted Decode page.
DecodeMounted ==
    /\ stegoFile = NoFile
    /\ decCarrierType = "null"
    /\ decPassword = << >>
    /\ decLsbDepth = 1
    /\ decPc = "idle"
    /\ decLocals = NoDecLocals
    /\ decodedText = << >>
    /\ decodedBlob = NoBlob
    /\ decodedFileName = <<102, 105, 108, 101, 46, 98, 105, 110>>
    /\ decLog = NoDecLog

CryptoIdle ==
    /\ cryptoRequest = NoRequest
    /\ cryptoResponse = NoResponse
    /\ cryptoLog = NoCryptoLog

\* The LSB bench before it is used (variables of SpecSteg elsewhere).
\* The codec bench before it is used (variables of SpecCodec under the other
\* specifications).
CodecOff ==
    /\ cCase = "off" /\ cIn = << >> /\ cMid = << >> /\ cOut = << >> /\ cPc = "off"

StegOff ==
    /\ sKind = "image" /\ sImage = NoImage /\ sWav = NoWav /\ sEnv = << >>
    /\ sDepth = 1 /\ sStego = NoResult /\ sXDepth = 0 /\ sOut = NULL /\ sPc = "off"
    /\ sCapacity = -1

\* The application before it is used (variables of Spec under SpecSteg).
PageOff ==
    /\ mode = "quick"
    /\ isMobile = FALSE
    /\ page = "encode"
    /\ toast = NoToast
    /\ download = NoFile
    /\ EncodeMounted
    /\ DecodeMounted
    /\ CryptoIdle

\* ---------------------------------------------------------------------------
\* WorkerClient and the crypto worker, stage by stage (workers/worker-client.ts,
\* workers/crypto.worker.ts).  Each direction of postMessage is a FIFO queue;
\* the worker runs one message handler or one continuation of an async
\* function at a time, so a handler runs from one await to the next unbroken.
\* ---------------------------------------------------------------------------
MaxJobs == 2
JobIds == 1..MaxJobs

NoJobRequest ==
    [type |-> "NONE", payload |-> << >>, ciphertext |-> << >>, password |-> << >>,
     useArgon2 |-> FALSE, compress |-> FALSE]

\* the request encryptInWorker hands to execute()
EncryptRequest(payload, password, useHighSecurity, gzip) ==
    [NoJobRequest EXCEPT !.type = "ENCRYPT", !.payload = payload,
                         !.password = password, !.useArgon2 = useHighSecurity,
                         !.compress = gzip]

\* the request decryptInWorker hands to execute()
DecryptRequest(ciphertext, password) ==
    [NoJobRequest EXCEPT !.type = "DECRYPT", !.ciphertext = ciphertext,
                         !.password = password]

\* An envelope made earlier by this program: compressed, high security.
StoredEnvelope ==
    EncryptResult(<<5, 6>>, PasswordA, TRUE, TRUE,
                  getRandomValues(SALT_LENGTH, 5), getRandomValues(IV_LENGTH, 6))

\* The calls the model makes: both flag settings of ENCRYPT, and a DECRYPT
\* that succeeds, one with the wrong password and one of a short buffer.
JobRequests ==
    { EncryptRequest(<<1, 2>>, PasswordA, FALSE, TRUE),
      EncryptRequest(<<9>>, PasswordB, TRUE, FALSE),
      DecryptRequest(StoredEnvelope, PasswordA),
      DecryptRequest(StoredEnvelope, PasswordB),
      DecryptRequest(SubSeq(StoredEnvelope, 1, MIN_DATA_LENGTH - 1), PasswordA) }

\* { ...request, id }
JobMessage(id, request) == [type |-> request.type, id |-> id, data |-> request]
CancelMessage(id) == [type |-> "CANCEL", id |-> id, data |-> NoJobRequest]

\* The worker's messages (the human-readable text of PROGRESS is left out).
sendProgress(id, progress, stage) ==
    [type |-> "PROGRESS", id |-> id, progress |-> progress, stage |-> stage,
     result |-> << >>, message |-> ""]

sendComplete(id, result) ==
    [type |-> "COMPLETE", id |-> id, progress |-> 0, stage |-> "",
     result |-> result, message |-> ""]

sendError(id, message) ==
    [type |-> "ERROR", id |-> id, progress |-> 0, stage |-> "",
     result |-> << >>, message |-> message]

\* A WorkerJob and the promise execute() returned for it.  state is "pending"
\* exactly while the job is in WorkerClient.jobs.  The other fields are
\* history: type and id of the messages handled for this job, whether cancel()
\* took effect, how often resolve or reject was called, and whether onProgress
\* was invoked after such a call.
NoJob ==
    [state |-> "unused", request |-> NoJobRequest, value |-> << >>, error |-> "",
     delivered |-> {}, cancelled |-> FALSE, settled |-> 0, lateProgress |-> FALSE]

\* One call of handleEncrypt / handleDecrypt: its arguments, the await it is
\* suspended at, and its locals.  The last seven fields are history: stages
\* lists the stages the call has entered, in order, with "catch" for its catch
\* block, and sent the type and progress value of every message it posted.
NoTask ==
    [request |-> NoJobRequest, pc |-> "none", data |-> << >>, salt |-> << >>,
     iv |-> << >>, key |-> 0,
     cancelProcessed |-> FALSE, checkedAfterCancel |-> FALSE,
     ranAfterCheck |-> FALSE, completeSent |-> FALSE, overlapped |-> FALSE,
     stages |-> << >>, sent |-> << >>]

Awaiting(task) ==
    task.pc \in {"compress", "derive", "encrypt", "decrypt", "decompress"}

WorkerInit ==
    /\ jobs = [id \in JobIds |-> NoJob]
    /\ jobCounter = 0
    /\ workerInbox = << >>
    /\ clientInbox = << >>
    /\ activeJobs = [id \in JobIds |-> "absent"]
    /\ tasks = [id \in JobIds |-> NoTask]
    /\ worker = "running"

\* A check that asks activeJobs.has(id) instead.
ActiveCheck_Has(entry) == entry # "absent"

\* `activeJobs.get(id)` as a condition: true only for an entry set to true.
ActiveCheck(entry) == entry = "true"

\* History kept at a stage-boundary check and at the work that follows one.
AtCheck(task) == [task EXCEPT !.checkedAfterCancel = @ \/ task.cancelProcessed]
AtStage(task) == [task EXCEPT !.ranAfterCheck = @ \/ task.checkedAfterCancel]

\* The call enters a stage (or, with "catch", its catch block).
Stage(task, name) == [AtStage(task) EXCEPT !.stages = Append(@, name)]

\* What a run of a handler posted, as kept in the history of its call.
Sent(out) == [i \in 1..Len(out) |-> [type |-> out[i].type, progress |-> out[i].progress]]

\* How a run of a handler ends: at an await, by leaving the try block (finally
\* deletes the activeJobs entry), or by the return in front of the try block.
Suspended(task, pc, out) ==
    [task |-> [task EXCEPT !.pc = pc], out |-> out, deleted |-> FALSE]
Returned(task, pc, out) ==
    [task |-> [task EXCEPT !.pc = pc], out |-> out, deleted |-> TRUE]
EarlyReturn(task) ==
    [task |-> [task EXCEPT !.pc = "aborted"], out |-> << >>, deleted |-> FALSE]

\* handleEncrypt, lines 145-153: dataToEncrypt is known.
EncryptFromData(id, task, entry, seed, out) ==
    LET t == AtCheck(task)
    IN  IF ~ActiveCheck(entry) THEN Returned(t, "aborted", out)
        ELSE Suspended([Stage(t, "DeriveKey") EXCEPT
                           !.salt = getRandomValues(SALT_LENGTH, seed),
                           !.iv = getRandomValues(IV_LENGTH, seed + 1)],
                       "derive", Append(out, sendProgress(id, 40, "encrypt")))

\* handleEncrypt, lines 134-143: from the call to the first await.
EncryptFromStart(id, task, entry, seed) ==
    LET t == AtCheck(task)
        p10 == sendProgress(id, 10, "encrypt")
    IN  IF ~ActiveCheck(entry) THEN EarlyReturn(t)
        ELSE IF t.request.compress
        THEN Suspended(Stage(Stage(t, "Prepare"), "Compress"), "compress",
                       <<p10, sendProgress(id, 20, "encrypt")>>)
        ELSE EncryptFromData(id, [Stage(t, "Prepare") EXCEPT !.data = t.request.payload],
                             entry, seed, <<p10>>)

\* handleEncrypt, lines 153-159: the key is derived.
EncryptFromKey(id, task, entry) ==
    LET t == AtCheck([task EXCEPT !.key =
                        deriveKeyPBKDF2(task.request.password, task.salt,
                                        Iterations(task.request.useArgon2))])
    IN  IF ~ActiveCheck(entry) THEN Returned(t, "aborted", << >>)
        ELSE Suspended(Stage(t, "Encrypt"), "encrypt", <<sendProgress(id, 70, "encrypt")>>)

\* A handleEncrypt that packs the envelope and returns without sendComplete.
EncryptFromCiphertext_NoAnswer(id, task) ==
    LET ciphertext == AesGcmEncrypt(task.key, task.iv, task.data)
        flagsByte == (IF task.request.compress THEN FLAG_COMPRESSED ELSE 0)
                     + (IF task.request.useArgon2 THEN FLAG_HIGH_SECURITY ELSE 0)
        packed == PackEnvelope(flagsByte, task.salt, task.iv, ciphertext)
    IN  Returned([Stage(task, "Frame") EXCEPT !.completeSent = TRUE], "done",
                 <<sendProgress(id, 90, "encrypt"), sendProgress(id, 100, "encrypt")>>)

\* handleEncrypt, lines 159-187: the ciphertext is there; pack and answer.
EncryptFromCiphertext(id, task) ==
    LET ciphertext == AesGcmEncrypt(task.key, task.iv, task.data)
        flagsByte == (IF task.request.compress THEN FLAG_COMPRESSED ELSE 0)
                     + (IF task.request.useArgon2 THEN FLAG_HIGH_SECURITY ELSE 0)
        packed == PackEnvelope(flagsByte, task.salt, task.iv, ciphertext)
    IN  Returned([Stage(task, "Frame") EXCEPT !.completeSent = TRUE], "done",
                 <<sendProgress(id, 90, "encrypt"), sendProgress(id, 100, "encrypt"),
                   sendComplete(id, packed)>>)

\* handleDecrypt, lines 201-262: from the call to the first await.
DecryptFromStart(id, task, entry) ==
    LET t == AtCheck(task)
        packedData == t.request.ciphertext
        p10 == sendProgress(id, 10, "decrypt")
        unframed == Stage(Stage(t, "Unframe"), "ValidateLengths")
        parsed == [unframed EXCEPT
                      !.salt = SubSeq(packedData, 6, 5 + SALT_LENGTH),
                      !.iv = SubSeq(packedData, 6 + SALT_LENGTH,
                                    5 + SALT_LENGTH + IV_LENGTH),
                      !.data = SubSeq(packedData, 6 + SALT_LENGTH + IV_LENGTH,
                                      Len(packedData))]
    IN  IF ~ActiveCheck(entry) THEN EarlyReturn(t)
        ELSE IF ~FramingValid(packedData)
        THEN Returned(Stage(unframed, "catch"), "done",
                      <<p10, sendError(id, GENERIC_ERROR)>>)
        ELSE IF ~ActiveCheck(entry) THEN Returned(AtCheck(parsed), "aborted", <<p10>>)
        ELSE Suspended(Stage(AtCheck(parsed), "DeriveKey"), "derive",
                       <<p10, sendProgress(id, 30, "decrypt")>>)

\* handleDecrypt, lines 262-268: the key is derived.
DecryptFromKey(id, task, entry) ==
    LET isHighSecurity == BitAt(task.request.ciphertext[1], 1) = 1
        t == AtCheck([task EXCEPT !.key =
                        deriveKeyPBKDF2(task.request.password, task.salt,
                                        Iterations(isHighSecurity))])
    IN  IF ~ActiveCheck(entry) THEN Returned(t, "aborted", << >>)
        ELSE Suspended(Stage(t, "Decrypt"), "decrypt", <<sendProgress(id, 60, "decrypt")>>)

\* A handler that goes on to the next stage after crypto.subtle.decrypt has thrown.
DecryptFromPlaintext_GoesOn(id, task) ==
    LET plaintext == AesGcmDecrypt(task.key, task.iv, task.data)
        isCompressed == BitAt(task.request.ciphertext[1], 0) = 1
        p80 == sendProgress(id, 80, "decrypt")
    IN  IF ~plaintext.ok
        THEN Suspended(Stage(Stage(task, "catch"), "Decompress"), "decompress",
                       <<sendError(id, GENERIC_ERROR)>>)
        ELSE IF isCompressed
        THEN Suspended([Stage(task, "Decompress") EXCEPT !.data = plaintext.bytes],
                       "decompress", <<p80, sendProgress(id, 85, "decrypt")>>)
        ELSE Returned([AtStage(task) EXCEPT !.completeSent = TRUE], "done",
                      <<p80, sendProgress(id, 100, "decrypt"),
                        sendComplete(id, plaintext.bytes)>>)

\* handleDecrypt, lines 268-283: crypto.subtle.decrypt has settled.
DecryptFromPlaintext(id, task) ==
    LET plaintext == AesGcmDecrypt(task.key, task.iv, task.data)
        isCompressed == BitAt(task.request.ciphertext[1], 0) = 1
        p80 == sendProgress(id, 80, "decrypt")
    IN  IF ~plaintext.ok
        THEN Returned(Stage(task, "catch"), "done", <<sendError(id, GENERIC_ERROR)>>)
        ELSE IF isCompressed
        THEN Suspended([Stage(task, "Decompress") EXCEPT !.data = plaintext.bytes],
                       "decompress", <<p80, sendProgress(id, 85, "decrypt")>>)
        ELSE Returned([AtStage(task) EXCEPT !.completeSent = TRUE], "done",
                      <<p80, sendProgress(id, 100, "decrypt"),
                        sendComplete(id, plaintext.bytes)>>)

\* handleDecrypt, lines 279-283: decompressData has settled.
DecryptFromDecompressed(id, task) ==
    LET result == decompressData(task.data)
    IN  IF ~result.ok
        THEN Returned(Stage(task, "catch"), "done", <<sendError(id, GENERIC_ERROR)>>)
        ELSE Returned([AtStage(task) EXCEPT !.completeSent = TRUE], "done",
                      <<sendProgress(id, 100, "decrypt"),
                        sendComplete(id, result.bytes)>>)

\* The continuation of a suspended call once the promise it awaits settles.
Continuation(id, task, entry, seed) ==
    IF task.request.type = "ENCRYPT"
    THEN CASE task.pc = "compress" ->
                  EncryptFromData(id, [task EXCEPT !.data =
                                          compressData(task.request.payload)],
                                  entry, seed, << >>)
           [] task.pc = "derive" -> EncryptFromKey(id, task, entry)
           [] OTHER -> EncryptFromCiphertext(id, task)
    ELSE CASE task.pc = "derive" -> DecryptFromKey(id, task, entry)
           [] task.pc = "decrypt" -> DecryptFromPlaintext(id, task)
           [] OTHER -> DecryptFromDecompressed(id, task)

\* execute(request, onProgress): a fresh id, the job entered, the message posted.
execute(request) ==
    /\ jobCounter < MaxJobs
    /\ LET id == jobCounter + 1
       IN  /\ jobCounter' = id
           /\ jobs' = [jobs EXCEPT ![id] = [NoJob EXCEPT !.state = "pending",
                                                        !.request = request]]
           /\ workerInbox' = Append(workerInbox, JobMessage(id, request))
    /\ UNCHANGED <<clientInbox, activeJobs, tasks, worker, stegVars, pageVars, codecVars>>

\* The cancel closure of a job; it does nothing once the job has left the map.
cancel(id) ==
    /\ id <= jobCounter
    /\ jobs[id].state = "pending"
    /\ jobs' = [jobs EXCEPT ![id].state = "rejected", ![id].error = "Cancelled",
                            ![id].cancelled = TRUE, ![id].settled = @ + 1]
    /\ workerInbox' = Append(workerInbox, CancelMessage(id))
    /\ UNCHANGED <<jobCounter, clientInbox, activeJobs, tasks, worker, stegVars, pageVars,
                   codecVars>>

\* self.onmessage of the worker: ENCRYPT and DECRYPT enter the job and run its
\* handler to the first await; CANCEL sets the entry to false.
onmessage(seed) ==
    /\ worker = "running"
    /\ workerInbox # << >>
    /\ LET request == Head(workerInbox)
           id == request.id
           started == [NoTask EXCEPT !.request = request.data]
           r == IF request.type = "ENCRYPT"
                THEN EncryptFromStart(id, started, "true", seed)
                ELSE DecryptFromStart(id, started, "true")
           together == Awaiting(r.task) /\ \E k \in JobIds : Awaiting(tasks[k])
       IN  IF request.type = "CANCEL"
           THEN /\ activeJobs' = [activeJobs EXCEPT ![id] = "false"]
                /\ tasks' = [tasks EXCEPT ![id].cancelProcessed = TRUE]
                /\ UNCHANGED clientInbox
           ELSE /\ activeJobs' = [activeJobs EXCEPT
                                     ![id] = IF r.deleted THEN "absent" ELSE "true"]
                /\ tasks' = [k \in JobIds |->
                               IF k = id THEN [r.task EXCEPT !.overlapped = together,
                                                             !.sent = Sent(r.out)]
                               ELSE IF together /\ Awaiting(tasks[k])
                               THEN [tasks[k] EXCEPT !.overlapped = TRUE]
                               ELSE tasks[k]]
                /\ clientInbox' = clientInbox \o r.out
    /\ workerInbox' = Tail(workerInbox)
    /\ UNCHANGED <<jobs, jobCounter, worker, stegVars, pageVars, codecVars>>

\* The worker resumes the call of job id at the await it is suspended at.
Resume(id, seed) ==
    /\ worker = "running"
    /\ Awaiting(tasks[id])
    /\ LET r == Continuation(id, tasks[id], activeJobs[id], seed)
       IN  /\ tasks' = [tasks EXCEPT ![id] = [r.task EXCEPT !.sent = @ \o Sent(r.out)]]
           /\ activeJobs' = IF r.deleted THEN [activeJobs EXCEPT ![id] = "absent"]
                            ELSE activeJobs
           /\ clientInbox' = clientInbox \o r.out
    /\ UNCHANGED <<jobs, jobCounter, workerInbox, worker, stegVars, pageVars, codecVars>>

\* A lookup that ignores the id of the message.
jobsGet_AnyPending(id) ==
    IF \E k \in JobIds : jobs[k].state = "pending"
    THEN CHOOSE k \in JobIds : jobs[k].state = "pending"
    ELSE 0

\* this.jobs.get(id): the id of the job found, 0 for undefined
jobsGet(id) == IF jobs[id].state = "pending" THEN id ELSE 0

\* WorkerClient.handleMessage
handleMessage ==
    /\ clientInbox # << >>
    /\ LET event == Head(clientInbox)
           job == jobsGet(event.id)
           seen == [type |-> event.type, id |-> event.id]
       IN  jobs' =
             IF job = 0 THEN jobs
             ELSE CASE event.type = "PROGRESS" ->
                         [jobs EXCEPT ![job].delivered = @ \cup {seen},
                                      ![job].lateProgress = @ \/ jobs[job].settled > 0]
                    [] event.type = "COMPLETE" ->
                         [jobs EXCEPT ![job].delivered = @ \cup {seen},
                                      ![job].state = "resolved",
                                      ![job].value = event.result,
                                      ![job].settled = @ + 1]
                    [] OTHER ->
                         [jobs EXCEPT ![job].delivered = @ \cup {seen},
                                      ![job].state = "rejected",
                                      ![job].error = event.message,
                                      ![job].settled = @ + 1]
    /\ clientInbox' = Tail(clientInbox)
    /\ UNCHANGED <<jobCounter, workerInbox, activeJobs, tasks, worker, stegVars, pageVars,
                   codecVars>>

\* What reject(new Error(message)) does to each job that is in the map.
RejectAll(message) ==
    [id \in JobIds |->
        IF jobs[id].state = "pending"
        THEN [jobs[id] EXCEPT !.state = "rejected", !.error = message,
                              !.settled = @ + 1]
        ELSE jobs[id]]

\* A handleError that rejects the pending jobs and leaves them in the map.
handleError_KeepsJobs ==
    /\ \E id \in JobIds : jobs[id].state = "pending"
    /\ jobs' = [id \in JobIds |->
                  [RejectAll("Worker crashed")[id] EXCEPT !.state = jobs[id].state]]
    /\ UNCHANGED <<jobCounter, workerInbox, clientInbox, activeJobs, tasks, worker,
                   stegVars, pageVars, codecVars>>

\* WorkerClient.handleError, the worker's onerror: every job in the map is
\* rejected and deleted.  The worker itself goes on running.
handleError ==
    /\ \E id \in JobIds : jobs[id].state = "pending"
    /\ jobs' = RejectAll("Worker crashed")
    /\ UNCHANGED <<jobCounter, workerInbox, clientInbox, activeJobs, tasks, worker,
                   stegVars, pageVars, codecVars>>

\* WorkerClient.terminate: the worker stops for good, every job in the map is
\* rejected and the map is cleared.  Messages the worker had already posted
\* may still arrive.
terminate ==
    /\ worker = "running" \/ \E id \in JobIds : jobs[id].state = "pending"
    /\ worker' = "terminated"
    /\ jobs' = RejectAll("Worker terminated")
    /\ UNCHANGED <<jobCounter, workerInbox, clientInbox, activeJobs, tasks,
                   stegVars, pageVars, codecVars>>

WorkerNext ==
    \/ \E request \in JobRequests : execute(request)
    \/ \E id \in JobIds : cancel(id)
    \/ \E seed \in RandomSeeds : onmessage(seed)
    \/ \E id \in JobIds, seed \in RandomSeeds : Resume(id, seed)
    \/ handleMessage

\* The client and the worker alone: the pages and the LSB bench stay unused.
WorkerOnly ==
    /\ WorkerInit
    /\ StegOff
    /\ PageOff
    /\ CodecOff

SpecWorker == WorkerOnly /\ [][WorkerNext]_vars

\* The client with a worker that may crash and may be terminated: an
\* encryption, and a decryption that ends with ERROR.
ClientRequests ==
    { EncryptRequest(<<9>>, PasswordB, TRUE, FALSE),
      DecryptRequest(StoredEnvelope, PasswordB) }

ClientNext ==
    \/ \E request \in ClientRequests : execute(request)
    \/ \E id \in JobIds : cancel(id)
    \/ \E seed \in RandomSeeds : onmessage(seed)
    \/ \E id \in JobIds, seed \in RandomSeeds : Resume(id, seed)
    \/ handleMessage
    \/ handleError
    \/ terminate

SpecClient == WorkerOnly /\ [][ClientNext]_vars

\* A step of Resume(id): the call of job id leaves the await it is suspended
\* at.  No other action changes the pc of a suspended call.
Resumed(id) == Awaiting(tasks[id]) /\ tasks'[id].pc # tasks[id].pc

\* The worker's event loop: a message that is queued is handled, and a call
\* whose awaited compression, key derivation or cipher call has settled is
\* resumed.  Nothing obliges the caller to start or cancel a job, and the
\* client's own message handling is not needed for a job to end.  The second
\* conjunct is WF_vars(Resume(id, seed)) written out, with the guard of Resume
\* for ENABLED <<Resume(id, seed)>>_vars.
WorkerFairness ==
    /\ WF_vars(\E seed \in RandomSeeds : onmessage(seed))
    /\ \A id \in JobIds :
          \/ []<>~(worker = "running" /\ Awaiting(tasks[id]))
          \/ []<><<Resumed(id)>>_vars

\* The jobs of the fair run: an encryption with compression, a decryption
\* that fails at the tag, and a decryption of a short buffer.
LiveRequests ==
    { EncryptRequest(<<1, 2>>, PasswordA, FALSE, TRUE),
      DecryptRequest(StoredEnvelope, PasswordB),
      DecryptRequest(SubSeq(StoredEnvelope, 1, MIN_DATA_LENGTH - 1), PasswordA) }

LiveNext ==
    \/ \E request \in LiveRequests : execute(request)
    \/ \E id \in JobIds : cancel(id)
    \/ \E seed \in RandomSeeds : onmessage(seed)
    \/ \E id \in JobIds, seed \in RandomSeeds : Resume(id, seed)
    \/ handleMessage

SpecWorkerLive == WorkerOnly /\ [][LiveNext]_vars /\ WorkerFairness

Init ==
    /\ mode = "quick"
    /\ isMobile \in BOOLEAN
    /\ page = "encode"
    /\ toast = NoToast
    /\ download = NoFile
    /\ EncodeMounted
    /\ DecodeMounted
    /\ CryptoIdle
    /\ StegOff
    /\ WorkerInit
    /\ CodecOff

isExpertMode == mode = "expert"

\* The form of a page is edited before its operation is started; a toast is
\* gone by the time of the next edit.
EncodeFormOpen == page = "encode" /\ encPc = "idle" /\ ~encLog.started
DecodeFormOpen == page = "decode" /\ decPc = "idle" /\ ~decLog.started

\* setMode of the header, and on the Encode page the effect that resets the
\* expert options when the mode becomes quick (Encode.tsx 71-77).  The Decode
\* page has no such effect.
SetMode(m) ==
    /\ m # mode
    /\ EncodeFormOpen \/ DecodeFormOpen
    /\ mode' = m
    /\ toast' = NoToast
    /\ IF page = "encode" /\ m # "expert"
       THEN /\ encLsbDepth' = 1
            /\ useArgon2' = FALSE
            /\ payloadFile' = NoFile
       ELSE UNCHANGED <<encLsbDepth, useArgon2, payloadFile>>
    /\ UNCHANGED <<isMobile, page, download, carrierFile, carrierType, payloadText,
                   encPassword, encConfirm, encPc, encLocals, encLog>>
    /\ UNCHANGED <<decodeVars, cryptoVars, stegVars, workerVars, codecVars>>

\* A file given to the carrier drop zone: FileDropzone.handleDrop /
\* handleFileInput, then handleCarrierSelect with the file or with null.
handleCarrierSelect(file) ==
    /\ EncodeFormOpen
    /\ LET refused == validateFile(file, CarrierDropzoneMaxSize) # "null"
           type == IF refused THEN "null" ELSE detectCarrierType(file)
       IN  /\ carrierType' = type
           /\ carrierFile' = IF type # "null" THEN file ELSE NoFile
           /\ toast' = IF type # "null" \/ refused THEN NoToast
                       ELSE Toast("Unsupported Format",
                                  "Please use PNG images or WAV audio files.")
    /\ UNCHANGED <<mode, isMobile, page, download, payloadText, payloadFile,
                   encPassword, encConfirm, encLsbDepth, useArgon2, encPc,
                   encLocals, encLog>>
    /\ UNCHANGED <<decodeVars, cryptoVars, stegVars, workerVars, codecVars>>

\* The text area: alone in quick mode, disabled while a file is chosen in
\* expert mode.
SetPayloadText(text) ==
    /\ EncodeFormOpen
    /\ ~isExpertMode \/ payloadFile = NoFile
    /\ payloadText' = text
    /\ payloadFile' = IF isExpertMode THEN NoFile ELSE payloadFile
    /\ toast' = NoToast
    /\ UNCHANGED <<mode, isMobile, page, download, carrierFile, carrierType,
                   encPassword, encConfirm, encLsbDepth, useArgon2, encPc,
                   encLocals, encLog>>
    /\ UNCHANGED <<decodeVars, cryptoVars, stegVars, workerVars, codecVars>>

\* The payload drop zone, rendered in expert mode only.
SetPayloadFile(file) ==
    /\ EncodeFormOpen
    /\ isExpertMode
    /\ payloadFile' = file
    /\ payloadText' = << >>
    /\ toast' = NoToast
    /\ UNCHANGED <<mode, isMobile, page, download, carrierFile, carrierType,
                   encPassword, encConfirm, encLsbDepth, useArgon2, encPc,
                   encLocals, encLog>>
    /\ UNCHANGED <<decodeVars, cryptoVars, stegVars, workerVars, codecVars>>

SetPassword(p) ==
    /\ EncodeFormOpen
    /\ encPassword' = p
    /\ toast' = NoToast
    /\ UNCHANGED <<mode, isMobile, page, download, carrierFile, carrierType,
                   payloadText, payloadFile, encConfirm, encLsbDepth, useArgon2,
                   encPc, encLocals, encLog>>
    /\ UNCHANGED <<decodeVars, cryptoVars, stegVars, workerVars, codecVars>>

SetConfirmPassword(p) ==
    /\ EncodeFormOpen
    /\ encConfirm' = p
    /\ toast' = NoToast
    /\ UNCHANGED <<mode, isMobile, page, download, carrierFile, carrierType,
                   payloadText, payloadFile, encPassword, encLsbDepth, useArgon2,
                   encPc, encLocals, encLog>>
    /\ UNCHANGED <<decodeVars, cryptoVars, stegVars, workerVars, codecVars>>

\* The depth select of the Encode page, rendered in expert mode only.
SetLsbDepth(d) ==
    /\ EncodeFormOpen
    /\ isExpertMode
    /\ encLsbDepth' = d
    /\ toast' = NoToast
    /\ UNCHANGED <<mode, isMobile, page, download, carrierFile, carrierType,
                   payloadText, payloadFile, encPassword, encConfirm, useArgon2,
                   encPc, encLocals, encLog>>
    /\ UNCHANGED <<decodeVars, cryptoVars, stegVars, workerVars, codecVars>>

\* The high-security check box, rendered in expert mode only.
SetUseArgon2(b) ==
    /\ EncodeFormOpen
    /\ isExpertMode
    /\ useArgon2' = b
    /\ toast' = NoToast
    /\ UNCHANGED <<mode, isMobile, page, download, carrierFile, carrierType,
                   payloadText, payloadFile, encPassword, encConfirm, encLsbDepth,
                   encPc, encLocals, encLog>>
    /\ UNCHANGED <<decodeVars, cryptoVars, stegVars, workerVars, codecVars>>

\* lib/file-validator.ts: the depth the platform and mode allow.
getLsbDepthForPlatform(requestedDepth, expert, platform) ==
    IF platform = "mobile" THEN [depth |-> 1, forced |-> TRUE]
    ELSE IF ~expert THEN [depth |-> 1, forced |-> TRUE]
    ELSE [depth |-> Max(1, Min(4, requestedDepth)), forced |-> FALSE]

Platform == IF isMobile THEN "mobile" ELSE "desktop"

\* effectiveLsbDepth of the Encode page: computed on every render and read
\* by the mobile warning only.
effectiveLsbDepth == getLsbDepthForPlatform(encLsbDepth, isExpertMode, Platform)

\* useCompression has no control on the page and keeps its initial value.
useCompression == TRUE

canEncode ==
    /\ carrierFile # NoFile
    /\ carrierType # "null"
    /\ payloadText # << >> \/ payloadFile # NoFile
    /\ encPassword # << >>
    /\ encPassword = encConfirm

EncodeFailed(message) == Toast("Encoding Failed", message)

\* handleEncode, from the click to the first await (lines 189-223/227).  The
\* button is enabled by canEncode; a run reads the state of its render.
handleEncode ==
    /\ EncodeFormOpen
    /\ canEncode
    /\ IF Len(encPassword) < 12
       THEN /\ toast' = Toast("Password must be at least 12 characters",
                              "Strong passwords are essential for security.")
            /\ UNCHANGED <<encPc, encLog>>
       ELSE /\ toast' = NoToast
            /\ encPc' = "load"
            /\ encLog' = [NoEncLog EXCEPT !.started = TRUE, !.expert = isExpertMode]
    /\ UNCHANGED <<mode, isMobile, page, download, carrierFile, carrierType,
                   payloadText, payloadFile, encPassword, encConfirm, encLsbDepth,
                   useArgon2, encLocals>>
    /\ UNCHANGED <<decodeVars, cryptoVars, stegVars, workerVars, codecVars>>

\* Stage 1 (lines 222-236): the carrier is decoded and its capacity analysed
\* at parseInt(lsbDepth); a decoder error ends the run in the catch block.
EncodeLoad ==
    /\ page = "encode" /\ encPc = "load"
    /\ LET img == loadImage(carrierFile)
           wav == decodeWav(carrierFile.bytes)
           loaded == IF carrierType = "image" THEN img ELSE wav
       IN  IF ~loaded.ok
           THEN /\ toast' = EncodeFailed(loaded.error)
                /\ encPc' = "idle"
                /\ encLog' = [encLog EXCEPT !.outcome = "failed"]
                /\ UNCHANGED encLocals
           ELSE /\ encLocals' =
                      IF carrierType = "image"
                      THEN [encLocals EXCEPT
                               !.imageData = img.image,
                               !.maxCapacity = analyzeImageCapacity(img.image, encLsbDepth)]
                      ELSE [encLocals EXCEPT
                               !.wavData = wav.wav,
                               !.maxCapacity = analyzeWavCapacity(wav.wav, encLsbDepth)]
                /\ encPc' = "analyze"
                /\ encLog' = [encLog EXCEPT !.capacity = encLocals'.maxCapacity]
                /\ UNCHANGED toast
    /\ UNCHANGED <<mode, isMobile, page, download, carrierFile, carrierType,
                   payloadText, payloadFile, encPassword, encConfirm, encLsbDepth,
                   useArgon2>>
    /\ UNCHANGED <<decodeVars, cryptoVars, stegVars, workerVars, codecVars>>

\* Stages 2-3 (lines 236-283): after the pause the payload is read and packed,
\* and the ENCRYPT job is posted to the crypto worker.
EncodePack ==
    /\ page = "encode" /\ encPc = "analyze"
    /\ LET payloadBuffer == IF payloadText # << >> THEN payloadText ELSE payloadFile.bytes
           metadata ==
               IF payloadText # << >>
               THEN Metadata(JStr(S_text), JNum(DateNow), JUndef, JUndef)
               ELSE Metadata(JStr(S_file), JNum(DateNow), JStr(payloadFile.name),
                             JStr(IF payloadFile.type # << >> THEN payloadFile.type
                                  ELSE S_octetStream))
           packed == packPayload(payloadBuffer, metadata)
       IN  IF payloadText = << >> /\ payloadFile.bytes = << >>
           THEN /\ toast' = EncodeFailed("Failed to read payload file - file may be corrupted or inaccessible")
                /\ encPc' = "idle"
                /\ encLog' = [encLog EXCEPT !.outcome = "failed"]
                /\ UNCHANGED <<encLocals, cryptoRequest>>
           ELSE IF ~packed.ok
           THEN /\ toast' = EncodeFailed(packed.error)
                /\ encPc' = "idle"
                /\ encLog' = [encLog EXCEPT !.outcome = "failed"]
                /\ UNCHANGED <<encLocals, cryptoRequest>>
           ELSE /\ encLocals' = [encLocals EXCEPT !.packedPayload = packed.bytes]
                /\ cryptoRequest' = [type |-> "ENCRYPT", payload |-> packed.bytes,
                                     password |-> encPassword,
                                     useArgon2 |-> isExpertMode /\ useArgon2,
                                     compress |-> useCompression]
                /\ encPc' = "encrypt"
                /\ encLog' = [encLog EXCEPT !.payload = payloadBuffer,
                                            !.metadata = metadata,
                                            !.password = encPassword]
                /\ UNCHANGED toast
    /\ UNCHANGED <<mode, isMobile, page, download, carrierFile, carrierType,
                   payloadText, payloadFile, encPassword, encConfirm, encLsbDepth,
                   useArgon2>>
    /\ UNCHANGED <<decodeVars, cryptoResponse, cryptoLog, stegVars, workerVars, codecVars>>

Complete(result) == [type |-> "COMPLETE", result |-> result, message |-> ""]
Error(message) == [type |-> "ERROR", result |-> << >>, message |-> message]

\* The crypto worker serving the page's ENCRYPT job (handleEncrypt run to its
\* end; SpecWorker follows it stage by stage).
CryptoWorkerEncrypt(seed) ==
    /\ cryptoRequest.type = "ENCRYPT"
    /\ cryptoResponse' =
           Complete(EncryptResult(cryptoRequest.payload, cryptoRequest.password,
                                  cryptoRequest.useArgon2, cryptoRequest.compress,
                                  getRandomValues(SALT_LENGTH, seed),
                                  getRandomValues(IV_LENGTH, seed + 1)))
    /\ cryptoRequest' = NoRequest
    /\ cryptoLog' = [cryptoLog EXCEPT !.keyDerivations = @ + 1, !.encryptions = @ + 1]
    /\ UNCHANGED <<appVars, encodeVars, decodeVars, stegVars, workerVars, codecVars>>

\* The crypto worker serving the page's DECRYPT job (handleDecrypt).
CryptoWorkerDecrypt ==
    /\ cryptoRequest.type = "DECRYPT"
    /\ LET r == DecryptResult(cryptoRequest.ciphertext, cryptoRequest.password)
           framed == FramingValid(cryptoRequest.ciphertext)
       IN  /\ cryptoResponse' = IF r.ok THEN Complete(r.bytes) ELSE Error(r.error)
           /\ cryptoLog' = IF framed
                           THEN [cryptoLog EXCEPT !.keyDerivations = @ + 1,
                                                  !.decryptions = @ + 1]
                           ELSE cryptoLog
    /\ cryptoRequest' = NoRequest
    /\ UNCHANGED <<appVars, encodeVars, decodeVars, stegVars, workerVars, codecVars>>

\* `${originalName}_copy.${extension}`
DownloadName(name, extension) == StripExtension(name) \o S_copyDot \o extension

\* Mutant of EncodeEmbed: on a failure the carrier is saved as it was loaded.
EncodeEmbed_SaveOnFailure ==
    /\ page = "encode" /\ encPc = "encrypt"
    /\ cryptoResponse.type # "NONE"
    /\ LET packedData == cryptoResponse.result
           isImage == carrierType = "image"
           result == IF isImage THEN embedData(encLocals.imageData, packedData, encLsbDepth)
                     ELSE embedWavData(encLocals.wavData, packedData, encLsbDepth)
           verifyExtract == IF isImage THEN extractData(result.image, encLsbDepth)
                            ELSE extractWavData(result.wav, encLsbDepth)
           isBmp == \/ carrierFile.type = S_imageBmp
                    \/ EndsWith(ToLowerCase(carrierFile.name), S_dotBmp)
           extension == IF ~isImage THEN S_wav ELSE IF isBmp THEN S_bmp ELSE S_png
           blob == IF ~isImage THEN Blob(encodeWav(result.wav), S_audioWav)
                   ELSE IF isBmp
                   THEN Blob(encodeBMP(result.image.data, result.image.width,
                                       result.image.height), S_imageBmp)
                   ELSE Blob(encodePNG(result.image.data, result.image.width,
                                       result.image.height), S_imagePng)
           thrown == IF cryptoResponse.type = "ERROR" THEN cryptoResponse.message
                     ELSE IF Len(packedData) > encLocals.maxCapacity
                     THEN "Payload too large for carrier"
                     ELSE IF ~result.ok THEN result.error
                     ELSE IF ~verifyExtract.found
                     THEN (IF isImage
                           THEN "Embedding verification failed - data not extractable"
                           ELSE "Audio embedding verification failed - data not extractable")
                     ELSE ""
           embedCalled == /\ cryptoResponse.type = "COMPLETE"
                          /\ Len(packedData) <= encLocals.maxCapacity
       IN  /\ toast' = IF thrown # "" THEN EncodeFailed(thrown)
                       ELSE Toast("Encoding Complete", "Your file has been downloaded.")
           /\ download' = IF thrown # ""
                          THEN File(DownloadName(carrierFile.name, extension),
                                    carrierFile.type, carrierFile.bytes)
                          ELSE File(DownloadName(carrierFile.name, extension),
                                    blob.type, blob.bytes)
           /\ encLog' = [encLog EXCEPT
                            !.envelope = packedData,
                            !.embedDepth = IF embedCalled THEN encLsbDepth ELSE 0,
                            !.outcome = IF thrown # "" THEN "failed" ELSE "complete"]
    /\ encPc' = "idle"
    /\ cryptoResponse' = NoResponse
    /\ UNCHANGED <<mode, isMobile, page, carrierFile, carrierType, payloadText,
                   payloadFile, encPassword, encConfirm, encLsbDepth, useArgon2,
                   encLocals>>
    /\ UNCHANGED <<decodeVars, cryptoRequest, cryptoLog, stegVars, workerVars, codecVars>>

\* Stages 3-5 (lines 283-370), once the worker has answered: the capacity
\* check on the envelope, embed at parseInt(lsbDepth), the verifying extract,
\* the re-encoded carrier and its download.
EncodeEmbed ==
    /\ page = "encode" /\ encPc = "encrypt"
    /\ cryptoResponse.type # "NONE"
    /\ LET packedData == cryptoResponse.result
           isImage == carrierType = "image"
           result == IF isImage THEN embedData(encLocals.imageData, packedData, encLsbDepth)
                     ELSE embedWavData(encLocals.wavData, packedData, encLsbDepth)
           verifyExtract == IF isImage THEN extractData(result.image, encLsbDepth)
                            ELSE extractWavData(result.wav, encLsbDepth)
           isBmp == \/ carrierFile.type = S_imageBmp
                    \/ EndsWith(ToLowerCase(carrierFile.name), S_dotBmp)
           extension == IF ~isImage THEN S_wav ELSE IF isBmp THEN S_bmp ELSE S_png
           blob == IF ~isImage THEN Blob(encodeWav(result.wav), S_audioWav)
                   ELSE IF isBmp
                   THEN Blob(encodeBMP(result.image.data, result.image.width,
                                       result.image.height), S_imageBmp)
                   ELSE Blob(encodePNG(result.image.data, result.image.width,
                                       result.image.height), S_imagePng)
           thrown == IF cryptoResponse.type = "ERROR" THEN cryptoResponse.message
                     ELSE IF Len(packedData) > encLocals.maxCapacity
                     THEN "Payload too large for carrier"
                     ELSE IF ~result.ok THEN result.error
                     ELSE IF ~verifyExtract.found
                     THEN (IF isImage
                           THEN "Embedding verification failed - data not extractable"
                           ELSE "Audio embedding verification failed - data not extractable")
                     ELSE ""
           embedCalled == /\ cryptoResponse.type = "COMPLETE"
                          /\ Len(packedData) <= encLocals.maxCapacity
       IN  /\ toast' = IF thrown # "" THEN EncodeFailed(thrown)
                       ELSE Toast("Encoding Complete", "Your file has been downloaded.")
           /\ download' = IF thrown # "" THEN download
                          ELSE File(DownloadName(carrierFile.name, extension),
                                    blob.type, blob.bytes)
           /\ encLog' = [encLog EXCEPT
                            !.envelope = packedData,
                            !.embedDepth = IF embedCalled THEN encLsbDepth ELSE 0,
                            !.outcome = IF thrown # "" THEN "failed" ELSE "complete"]
    /\ encPc' = "idle"
    /\ cryptoResponse' = NoResponse
    /\ UNCHANGED <<mode, isMobile, page, carrierFile, carrierType, payloadText,
                   payloadFile, encPassword, encConfirm, encLsbDepth, useArgon2,
                   encLocals>>
    /\ UNCHANGED <<decodeVars, cryptoRequest, cryptoLog, stegVars, workerVars, codecVars>>

\* Stego files made by another installation of the program: each hides an
\* envelope chosen to reach one branch of the decode pipeline.
ForeignSalt == getRandomValues(SALT_LENGTH, 5)
ForeignIv == getRandomValues(IV_LENGTH, 6)

\* A well-formed envelope around any plaintext, under PasswordA.
SealPlaintext(plaintext, gzipped) ==
    EncryptResult(plaintext, PasswordA, FALSE, gzipped, ForeignSalt, ForeignIv)

\* Metadata JSON that parses but names no known payload type.
S_blobMeta == <<123, 34, 116, 121, 112, 101, 34, 58, 34, 98, 108, 111, 98, 34, 125>>

ForeignPlaintexts ==
    [ legacy        |-> <<2, 9, 8, 7, 6, 5>>,
      shortHeader   |-> <<1, 0, 0>>,
      zeroMetaLen   |-> <<1, 0, 0, 0, 0, 5>>,
      metaLenBeyond |-> <<1, 200, 0, 0, 0, 123, 125>>,
      malformedJson |-> <<1, 3, 0, 0, 0, 123, 34, 125, 5>>,
      invalidSchema |-> <<1>> \o LE32(Len(S_blobMeta)) \o S_blobMeta \o <<5>> ]

\* Envelopes damaged after sealing, and plaintext that is flagged compressed
\* but is no gzip stream.
ForeignEnvelopes ==
    LET good == SealPlaintext(<<2, 9, 8, 7, 6, 5>>, FALSE)
        n == Len(good)
    IN  [ tooShort      |-> SubSeq(good, 1, MIN_DATA_LENGTH - 1),
          wrongSaltLen  |-> [good EXCEPT ![2] = 15],
          tamperedCt    |-> [good EXCEPT ![n - 20] = (@ + 1) % 256],
          truncatedCt   |-> SubSeq(good, 1, n - 1),
          notGzip       |-> [good EXCEPT ![1] = FLAG_COMPRESSED] ]

\* The envelope hidden at depth 1 in 624 samples of audio.
ForeignStego(envelope) ==
    encodeWav(embedWavData(decodeWav(ForeignWav(624)).wav, envelope, 1).wav)

S_inboxWav == <<105, 110, 46, 119, 97, 118>>

ForeignStegoFiles ==
    { File(S_inboxWav, S_audioWav,
           ForeignStego(SealPlaintext(ForeignPlaintexts[k], FALSE))) :
        k \in DOMAIN ForeignPlaintexts }
    \cup
    { File(S_inboxWav, S_audioWav, ForeignStego(ForeignEnvelopes[k])) :
        k \in DOMAIN ForeignEnvelopes }

\* The files the Decode page can be given: the file saved by handleEncode,
\* typed by the browser from its extension, or, in a session that has not
\* encoded, a file received from elsewhere.
DecodeFiles ==
    IF download # NoFile
    THEN {File(download.name, BrowserType(download.name), download.bytes)}
    ELSE IF ~encLog.started THEN ForeignStegoFiles
    ELSE {}

\* Leaving the Encode page unmounts it; the Decode page is mounted afresh.
Navigate ==
    /\ page = "encode" /\ encPc = "idle"
    /\ page' = "decode"
    /\ toast' = NoToast
    /\ carrierFile' = NoFile
    /\ carrierType' = "null"
    /\ payloadText' = << >>
    /\ payloadFile' = NoFile
    /\ encPassword' = << >>
    /\ encConfirm' = << >>
    /\ encLsbDepth' = 1
    /\ useArgon2' = FALSE
    /\ encLocals' = NoEncLocals
    /\ UNCHANGED <<mode, isMobile, download, encPc, encLog>>
    /\ UNCHANGED <<decodeVars, cryptoVars, stegVars, workerVars, codecVars>>

handleFileSelect(file) ==
    /\ DecodeFormOpen
    /\ LET refused == validateFile(file, CarrierDropzoneMaxSize) # "null"
           type == IF refused THEN "null" ELSE detectCarrierType(file)
       IN  /\ decCarrierType' = type
           /\ stegoFile' = IF type # "null" THEN file ELSE NoFile
           /\ toast' = IF type # "null" \/ refused THEN NoToast
                       ELSE Toast("Unsupported Format",
                                  "Please use PNG images or WAV audio files.")
    /\ UNCHANGED <<mode, isMobile, page, download>>
    /\ UNCHANGED <<decPassword, decLsbDepth, decPc, decLocals, decodedText,
                   decodedBlob, decodedFileName, decLog>>
    /\ UNCHANGED <<encodeVars, cryptoVars, stegVars, workerVars, codecVars>>

SetDecodePassword(p) ==
    /\ DecodeFormOpen
    /\ decPassword' = p
    /\ toast' = NoToast
    /\ UNCHANGED <<mode, isMobile, page, download>>
    /\ UNCHANGED <<stegoFile, decCarrierType, decLsbDepth, decPc, decLocals,
                   decodedText, decodedBlob, decodedFileName, decLog>>
    /\ UNCHANGED <<encodeVars, cryptoVars, stegVars, workerVars, codecVars>>

\* The depth select of the Decode page, rendered in expert mode only.
SetDecodeLsbDepth(d) ==
    /\ DecodeFormOpen
    /\ isExpertMode
    /\ decLsbDepth' = d
    /\ toast' = NoToast
    /\ UNCHANGED <<mode, isMobile, page, download>>
    /\ UNCHANGED <<stegoFile, decCarrierType, decPassword, decPc, decLocals,
                   decodedText, decodedBlob, decodedFileName, decLog>>
    /\ UNCHANGED <<encodeVars, cryptoVars, stegVars, workerVars, codecVars>>

canDecode == stegoFile # NoFile /\ decCarrierType # "null" /\ decPassword # << >>

DecodeFailed(message) == Toast("Decoding Failed", message)

\* new TextDecoder().decode(buffer): a leading byte-order mark is dropped.
bufferToString(buffer) ==
    IF Len(buffer) >= 3 /\ SubSeq(buffer, 1, 3) = <<239, 187, 191>>
    THEN SubSeq(buffer, 4, Len(buffer))
    ELSE buffer

\* handleDecode, from the click to the first await (lines 720-741/753).
handleDecode ==
    /\ DecodeFormOpen
    /\ canDecode
    /\ decPc' = "load"
    /\ decodedText' = << >>
    /\ decodedBlob' = NoBlob
    /\ decLog' = [NoDecLog EXCEPT !.started = TRUE, !.expert = isExpertMode]
    /\ toast' = NoToast
    /\ UNCHANGED <<mode, isMobile, page, download>>
    /\ UNCHANGED <<stegoFile, decCarrierType, decPassword, decLsbDepth, decLocals,
                   decodedFileName>>
    /\ UNCHANGED <<encodeVars, cryptoVars, stegVars, workerVars, codecVars>>

\* Stage 1 (lines 740-746 / 753-759): the stego file is decoded.
DecodeLoad ==
    /\ page = "decode" /\ decPc = "load"
    /\ LET img == loadImage(stegoFile)
           wav == decodeWav(stegoFile.bytes)
           loaded == IF decCarrierType = "image" THEN img ELSE wav
       IN  IF ~loaded.ok
           THEN /\ toast' = DecodeFailed(loaded.error)
                /\ decPc' = "idle"
                /\ decLog' = [decLog EXCEPT !.outcome = "failed"]
                /\ UNCHANGED decLocals
           ELSE /\ decLocals' = IF decCarrierType = "image"
                                THEN [decLocals EXCEPT !.imageData = img.image]
                                ELSE [decLocals EXCEPT !.wavData = wav.wav]
                /\ decPc' = "analyze"
                /\ UNCHANGED <<toast, decLog>>
    /\ UNCHANGED <<mode, isMobile, page, download>>
    /\ UNCHANGED <<stegoFile, decCarrierType, decPassword, decLsbDepth,
                   decodedText, decodedBlob, decodedFileName>>
    /\ UNCHANGED <<encodeVars, cryptoVars, stegVars, workerVars, codecVars>>

\* Stages 2-4 (lines 746-783): after the pause, extract at parseInt(lsbDepth)
\* and post the DECRYPT job, or fail when nothing is found.
DecodeExtract ==
    /\ page = "decode" /\ decPc = "analyze"
    /\ LET extractedData == IF decCarrierType = "image"
                            THEN extractData(decLocals.imageData, decLsbDepth)
                            ELSE extractWavData(decLocals.wavData, decLsbDepth)
       IN  /\ decLog' = [decLog EXCEPT
                            !.extractDepth = decLsbDepth,
                            !.extracted = extractedData,
                            !.outcome = IF extractedData.found THEN @ ELSE "failed"]
           /\ IF ~extractedData.found
              THEN /\ toast' = DecodeFailed("No hidden data found or wrong LSB depth")
                   /\ decPc' = "idle"
                   /\ UNCHANGED cryptoRequest
              ELSE /\ cryptoRequest' = [type |-> "DECRYPT",
                                        ciphertext |-> extractedData.bytes,
                                        password |-> decPassword]
                   /\ decPc' = "decrypt"
                   /\ UNCHANGED toast
    /\ UNCHANGED <<mode, isMobile, page, download>>
    /\ UNCHANGED <<stegoFile, decCarrierType, decPassword, decLsbDepth, decLocals,
                   decodedText, decodedBlob, decodedFileName>>
    /\ UNCHANGED <<encodeVars, cryptoResponse, cryptoLog, stegVars, workerVars, codecVars>>

\* Stage 5 (lines 783-822), once the worker has answered: an ERROR ends the
\* run in the outer catch; a result is unpacked, and a container that does
\* not unpack is offered whole as "recovered_file.bin" (inner catch).
DecodeSave ==
    /\ page = "decode" /\ decPc = "decrypt"
    /\ cryptoResponse.type # "NONE"
    /\ LET processedData == cryptoResponse.result
           unpacked == unpackPayload(processedData)
           isText == unpacked.ok /\ unpacked.metadata.type = JStr(S_text)
       IN  IF cryptoResponse.type = "ERROR"
           THEN /\ toast' = DecodeFailed(cryptoResponse.message)
                /\ decLog' = [decLog EXCEPT !.outcome = "failed"]
                /\ UNCHANGED <<decodedText, decodedBlob, decodedFileName>>
           ELSE /\ toast' = Toast("Decoding Complete", "Hidden data has been extracted.")
                /\ decLog' = [decLog EXCEPT !.decrypted = TRUE,
                                            !.plaintext = processedData,
                                            !.unpacked = unpacked,
                                            !.outcome = "complete"]
                /\ decodedText' = IF isText THEN bufferToString(unpacked.data)
                                  ELSE decodedText
                /\ decodedBlob' =
                       IF isText THEN decodedBlob
                       ELSE IF ~unpacked.ok THEN Blob(processedData, << >>)
                       ELSE Blob(unpacked.data,
                                 IF Truthy(unpacked.metadata.mimeType)
                                 THEN unpacked.metadata.mimeType.s ELSE S_octetStream)
                /\ decodedFileName' =
                       IF isText THEN decodedFileName
                       ELSE IF unpacked.ok /\ Truthy(unpacked.metadata.name)
                       THEN unpacked.metadata.name.s
                       ELSE S_recoveredFile
    /\ decPc' = "idle"
    /\ cryptoResponse' = NoResponse
    /\ UNCHANGED <<mode, isMobile, page, download>>
    /\ UNCHANGED <<stegoFile, decCarrierType, decPassword, decLsbDepth, decLocals>>
    /\ UNCHANGED <<encodeVars, cryptoRequest, cryptoLog, stegVars, workerVars, codecVars>>

Next ==
    \/ \E m \in {"quick", "expert"} : SetMode(m)
    \/ \E file \in CarrierFiles : handleCarrierSelect(file)
    \/ \E text \in TextPayloads : SetPayloadText(text)
    \/ \E file \in PayloadFiles : SetPayloadFile(file)
    \/ \E p \in {PasswordA, PasswordShort} : SetPassword(p)
    \/ \E p \in {PasswordA, PasswordShort} : SetConfirmPassword(p)
    \/ \E d \in LsbDepths : SetLsbDepth(d)
    \/ \E b \in BOOLEAN : SetUseArgon2(b)
    \/ handleEncode
    \/ EncodeLoad
    \/ EncodePack
    \/ \E seed \in RandomSeeds : CryptoWorkerEncrypt(seed)
    \/ EncodeEmbed
    \/ Navigate
    \/ \E file \in DecodeFiles : handleFileSelect(file)
    \/ \E p \in {PasswordA, PasswordB} : SetDecodePassword(p)
    \/ \E d \in LsbDepths : SetDecodeLsbDepth(d)
    \/ handleDecode
    \/ DecodeLoad
    \/ DecodeExtract
    \/ CryptoWorkerDecrypt
    \/ DecodeSave

Spec == Init /\ [][Next]_vars

\* The LSB bench alone: the pages and the worker protocol stay unused.
StegOnly ==
    /\ StegInit
    /\ PageOff
    /\ WorkerInit
    /\ CodecOff

SpecSteg == StegOnly /\ [][StegNext]_vars

\* The extractors alone, applied to carriers as they come.
ProbeOnly ==
    /\ ProbeInit
    /\ PageOff
    /\ WorkerInit
    /\ CodecOff

SpecProbe == ProbeOnly /\ [][ProbeNext]_vars

\* The fallback module alone.
FallbackOnly ==
    /\ FallbackInit
    /\ PageOff
    /\ WorkerInit
    /\ CodecOff

SpecFallback == FallbackOnly /\ [][FallbackNext]_vars


\* ---------------------------------------------------------------------------
\* Properties of the pages, checked under Spec.
\* ---------------------------------------------------------------------------
\* A finished Decode run on the file the Encode page saved, with the password
\* and the depth of the Encode run.
SameKeyDecodeDone ==
    /\ page = "decode" /\ decPc = "idle" /\ decLog.started
    /\ download # NoFile /\ stegoFile.bytes = download.bytes
    /\ decPassword = encLog.password
    /\ decLsbDepth = encLog.embedDepth

\* The characters that packPayload keeps of a file name are those of the
\* first 255 that are neither control characters nor one of < > : " / \ | ? *
NameAsStored(stored, original) ==
    /\ Len(stored) = Min(Len(original), 255)
    /\ \A i \in 1..Len(stored) :
          stored[i] = IF original[i] < 32
                         \/ original[i] \in {60, 62, 58, 34, 47, 92, 124, 63, 42}
                      THEN 95 ELSE original[i]

DecodeFailedAfterExtraction ==
    /\ page = "decode" /\ decPc = "idle" /\ decLog.started
    /\ decLog.extracted.found
    /\ ~decLog.decrypted \/ ~decLog.unpacked.ok

\* C2: every decode failure after extraction (envelope framing, key
\* derivation or AES-GCM, decompression, payload container) is reported with
\* the one message 'Decryption failed - wrong password or corrupted data',
\* and no decoded output is produced.
C2_UniformDecodeFailure ==
    DecodeFailedAfterExtraction =>
       /\ toast = DecodeFailed(GENERIC_ERROR)
       /\ decodedText = << >>
       /\ decodedBlob = NoBlob

\* The capacity of the loaded carrier at the selected depth, floor(bits / 8) - 8.
CarrierCapacity ==
    IF carrierType = "image"
    THEN ((encLocals.imageData.width * encLocals.imageData.height * 3 * encLsbDepth)
          \div 8) - 8
    ELSE ((Len(encLocals.wavData.samples) * encLsbDepth) \div 8) - 8

\* What the saved file hides at the selected depth.
HiddenInDownload ==
    IF carrierType = "image"
    THEN extractData(loadImage(File(download.name, BrowserType(download.name),
                                    download.bytes)).image, encLsbDepth)
    ELSE extractWavData(decodeWav(download.bytes).wav, encLsbDepth)

\* An Encode run that got its envelope from the worker and has ended.
EncodeEnded ==
    /\ page = "encode" /\ encPc = "idle" /\ encLog.started
    /\ encLog.envelope # << >>

\* C5: capacity boundary. With cap = floor(bits / 8) - 8 for the carrier and
\* depth, an envelope of at most cap bytes (exactly cap included) passes the
\* page's check and embed's own check and is hidden in the saved file; an
\* envelope of cap + 1 bytes or more is rejected with the payload-too-large
\* error, embed is not called and nothing is saved.
C5_CapacityBoundary ==
    EncodeEnded =>
       /\ encLog.capacity = CarrierCapacity
       /\ IF Len(encLog.envelope) <= CarrierCapacity
          THEN /\ encLog.outcome = "complete"
               /\ encLog.embedDepth = encLsbDepth
               /\ download # NoFile
               /\ HiddenInDownload = Bytes(encLog.envelope)
          ELSE /\ encLog.outcome = "failed"
               /\ toast = EncodeFailed("Payload too large for carrier")
               /\ encLog.embedDepth = 0
               /\ download = NoFile

\* An envelope of exactly cap bytes, hidden and saved.
C5_Witness ==
    /\ EncodeEnded
    /\ Len(encLog.envelope) = CarrierCapacity
    /\ encLog.outcome = "complete"
    /\ HiddenInDownload = Bytes(encLog.envelope)

\* An envelope of cap + 1 bytes, rejected.
C5_OneByteOver ==
    /\ EncodeEnded
    /\ Len(encLog.envelope) = CarrierCapacity + 1
    /\ encLog.outcome = "failed"

\* C6: when the payload cannot fit the carrier, the encode fails with the
\* capacity error before any cryptographic step (key derivation or AES-GCM)
\* has been performed.
C6_CapacityBeforeCrypto ==
    (/\ page = "encode" /\ encPc = "idle" /\ encLog.started
     /\ toast = EncodeFailed("Payload too large for carrier"))
       => cryptoLog.keyDerivations = 0 /\ cryptoLog.encryptions = 0

\* C8: the depth passed to embed by handleEncode and to extract by
\* handleDecode is 1 whenever the platform is mobile or the mode is quick;
\* depths 2 to 4 are used only on desktop in expert mode.
C8_DepthOneUnlessDesktopExpert ==
    /\ (encLog.embedDepth # 0 /\ (isMobile \/ ~encLog.expert))
          => encLog.embedDepth = 1
    /\ (decLog.extractDepth # 0 /\ (isMobile \/ ~decLog.expert))
          => decLog.extractDepth = 1

\* The two ways round the rule, each on its own.
C8_MobileExpertEmbedsDeeper ==
    ~(isMobile /\ encLog.expert /\ encLog.embedDepth > 1)

C8_QuickDecodeExtractsDeeper ==
    ~(~isMobile /\ decLog.started /\ ~decLog.expert /\ decLog.extractDepth > 1)


\* ---------------------------------------------------------------------------
\* Claims about the worker protocol (SpecWorker)
\* ---------------------------------------------------------------------------
CancelQueued(id) ==
    \E k \in 1..Len(workerInbox) : workerInbox[k] = CancelMessage(id)

CompleteQueued(id) ==
    \E k \in 1..Len(clientInbox) :
        clientInbox[k].type = "COMPLETE" /\ clientInbox[k].id = id

\* C9: cancel() on a pending job rejects its promise with 'Cancelled' and
\* posts CANCEL; once the worker has handled the CANCEL, the first activeJobs
\* check the job's handler makes ends the handler: no stage runs after that
\* check and no COMPLETE is sent for the job.
C9_CancelAbortsAtNextCheck ==
    \A id \in JobIds :
        /\ jobs[id].cancelled =>
              /\ jobs[id].state = "rejected"
              /\ jobs[id].error = "Cancelled"
              /\ CancelQueued(id) \/ tasks[id].cancelProcessed
        /\ tasks[id].checkedAfterCancel =>
              /\ tasks[id].pc = "aborted"
              /\ ~tasks[id].ranAfterCheck
              /\ ~tasks[id].completeSent
              /\ ~CompleteQueued(id)
              /\ jobs[id].state # "resolved"

\* A job cancelled after progress had reached the caller, ended by a check.
C9_Witness ==
    \E id \in JobIds :
        /\ jobs[id].cancelled
        /\ [type |-> "PROGRESS", id |-> id] \in jobs[id].delivered
        /\ tasks[id].cancelProcessed
        /\ tasks[id].checkedAfterCancel
        /\ tasks[id].pc = "aborted"
        /\ activeJobs[id] = "absent"

\* What a job must end with, from the request its caller made and the salt
\* and IV drawn for it.
ExpectedOutcome(id) ==
    LET request == jobs[id].request
    IN  IF request.type = "ENCRYPT"
        THEN [ok |-> TRUE,
              bytes |-> EncryptResult(request.payload, request.password,
                                      request.useArgon2, request.compress,
                                      tasks[id].salt, tasks[id].iv)]
        ELSE DecryptResult(request.ciphertext, request.password)

RequestQueued(id) ==
    \E k \in 1..Len(workerInbox) : workerInbox[k] = JobMessage(id, jobs[id].request)

\* The COMPLETE or ERROR this job must end with is on its way to the client.
OutcomeQueued(id) ==
    \E k \in 1..Len(clientInbox) :
        clientInbox[k] = IF ExpectedOutcome(id).ok
                         THEN sendComplete(id, ExpectedOutcome(id).bytes)
                         ELSE sendError(id, ExpectedOutcome(id).error)

\* C10: jobs in flight together do not interact: a message is handled only
\* for the job whose id it carries; a job resolves with the result of its own
\* payload, password and flags and is rejected only by its own cancel() or its
\* own failure; and whatever happens to the other jobs, a job that was not
\* cancelled stays on its way: its request is queued, its handler is at an
\* await, or its own COMPLETE or ERROR is queued for the client.
C10_JobsDoNotInteract ==
    \A id \in JobIds :
        /\ \A m \in jobs[id].delivered : m.id = id
        /\ jobs[id].state = "resolved" =>
              /\ ExpectedOutcome(id).ok
              /\ jobs[id].value = ExpectedOutcome(id).bytes
        /\ (jobs[id].state = "rejected" /\ ~jobs[id].cancelled) =>
              /\ ~ExpectedOutcome(id).ok
              /\ jobs[id].error = ExpectedOutcome(id).error
        /\ jobs[id].state = "pending" =>
              \/ RequestQueued(id)
              \/ Awaiting(tasks[id])
              \/ OutcomeQueued(id)

\* Two different ENCRYPT jobs that were suspended in the worker together:
\* one was cancelled and aborted, the other resolved with its own envelope.
C10_Witness ==
    \E i, j \in JobIds :
        /\ i # j
        /\ tasks[i].overlapped /\ tasks[j].overlapped
        /\ jobs[i].request.type = "ENCRYPT" /\ jobs[j].request.type = "ENCRYPT"
        /\ jobs[i].request # jobs[j].request
        /\ jobs[i].cancelled /\ tasks[i].pc = "aborted"
        /\ jobs[j].state = "resolved"
        /\ jobs[j].value = ExpectedOutcome(j).bytes

\* ---------------------------------------------------------------------------
\* Frame effect of the image engine (SpecSteg)
\* ---------------------------------------------------------------------------
\* The pixel (from 0) that receives the last bit of the framed message.
LastMessagePixel == (8 * (8 + Len(sEnv)) - 1) \div (3 * sDepth)

\* C11: alpha invariance of embedData. Every pixel up to and including the
\* one that receives the last message bit has alpha 255 in the output; every
\* later pixel keeps its original R, G, B and alpha.
C11_AlphaInvariance ==
    (sKind = "image" /\ sStego.ok) =>
       \A p \in 0..(sImage.width * sImage.height - 1) :
          IF p <= LastMessagePixel
          THEN sStego.image.data[4 * p + 4] = 255
          ELSE \A k \in 1..4 : sStego.image.data[4 * p + k] = sImage.data[4 * p + k]

\* A depth-4 embedding into a raster whose alpha is not 255: a visited pixel
\* had another alpha, and a pixel behind the message still has its own.
C11_Witness ==
    /\ sKind = "image" /\ sPc = "embedded" /\ sDepth = 4
    /\ sImage.data[4] # 255
    /\ \E p \in 0..(sImage.width * sImage.height - 1) :
          /\ p > LastMessagePixel
          /\ sImage.data[4 * p + 4] # 255
          /\ sStego.image.data[4 * p + 4] = sImage.data[4 * p + 4]

\* ---------------------------------------------------------------------------
\* Reported capacity (SpecSteg)
\* ---------------------------------------------------------------------------
\* floor(bits / 8) - 8 for the carrier and depth at hand
CapacityFormula ==
    IF sKind = "image"
    THEN (sImage.width * sImage.height * 3 * sDepth) \div 8 - 8
    ELSE (Len(sWav.samples) * sDepth) \div 8 - 8

\* C12: the reported capacity is floor(W*H*3*d/8) - 8 for an image and
\* floor(N*d/8) - 8 for audio, and 0 where that number is negative.
C12_ReportedCapacity ==
    sCapacity # -1 =>
       sCapacity = IF CapacityFormula < 0 THEN 0 ELSE CapacityFormula

\* 81 bits of a 3x9 raster at depth 1: floor(81 / 8) - 8 = 2.
C12_Witness ==
    /\ sKind = "image" /\ sImage.width = 3 /\ sImage.height = 9 /\ sDepth = 1
    /\ sCapacity = 2

\* C12 as stated: the formula for every carrier size, the smallest included.
C12_FormulaEverywhere ==
    sCapacity # -1 => sCapacity = CapacityFormula


\* The codec whose result the encode run works on: decodeWav for an audio
\* carrier, else the first decoder of loadImage that succeeds.
DecodedKind(file, type) ==
    IF type = "audio" THEN "wav"
    ELSE IF file.type = S_imagePng /\ decodePNG(file.bytes).ok THEN "png"
    ELSE "bmp"

\* The container format of a written file, by its magic number.
WrittenKind(bytes) ==
    IF Len(bytes) >= 8 /\ SubSeq(bytes, 1, 8) = PNG_SIGNATURE THEN "png"
    ELSE IF Len(bytes) >= 2 /\ SubSeq(bytes, 1, 2) = <<66, 77>> THEN "bmp"
    ELSE IF Len(bytes) >= 4 /\ SubSeq(bytes, 1, 4) = S_RIFF THEN "wav"
    ELSE "none"

\* C13: the stego file of every completed encode has the kind of its carrier:
\* a carrier decoded by decodePNG is written as PNG, one decoded by decodeBMP
\* as BMP and a WAV as WAV, whatever MIME type and file name the accepted
\* carrier has.
C13_OutputKindIsInputKind ==
    encLog.outcome = "complete" =>
        WrittenKind(download.bytes) = DecodedKind(carrierFile, carrierType)


\* The file is larger than the ceiling of the platform for its kind.
OverLimit(file, type) ==
    file.size > FILE_LIMITS[Platform][IF type = "image" THEN "imageCarrier"
                                         ELSE "audioCarrier"]

\* C14: no codec is run on a carrier that is larger than the ceiling of its
\* platform and kind: a run of handleEncode or handleDecode that has passed
\* its load stage (loadImage / decodeWav returned) works on a file within the
\* ceiling.
C14_NoDecodeOverLimit ==
    /\ (page = "encode" /\ encPc \in {"analyze", "encrypt"})
          => ~OverLimit(carrierFile, carrierType)
    /\ (page = "decode" /\ decPc \in {"analyze", "decrypt"})
          => ~OverLimit(stegoFile, decCarrierType)


\* ---------------------------------------------------------------------------
\* SpecCodec: the pure functions of the payload container, the envelope and
\* the file codecs, applied call by call to inputs drawn from bounded sets.
\* ---------------------------------------------------------------------------
MaxBufLen == 6

\* Version bytes 0, 1 and 2, and '{' to open a metadata text.
BufferBytes == {0, 1, 2, 123}

\* Decrypted buffers handed to unpackPayload by a decoder of older files.
DecryptedBuffers == UNION {[1..n -> BufferBytes] : n \in 0..MaxBufLen}

PayloadDatas == {<< >>, <<0>>, <<1, 0, 0, 0, 0, 9>>, <<123, 125>>, <<255, 1, 254>>}

\* 'a"b\c' with a control character, and 'x/y'.
QuotedName == <<97, 34, 98, 92, 99, 7>>
QuotedType == <<120, 47, 121, 34, 92>>

MetadataRecords ==
    { Metadata(type, timestamp, name, mimeType) :
        type \in {JStr(S_text), JStr(S_file)},
        timestamp \in {JNum(0), JNum(DateNow), JNum(99999999), JNaN},
        name \in {JUndef, JStr(<< >>), JStr(QuotedName), JStr(LongName)},
        mimeType \in {JUndef, JStr(<< >>), JStr(QuotedType), JStr(LongType)} }

\* Plaintexts of handleEncrypt: empty, one byte, text, and the first bytes
\* of a gzip member.
Plaintexts == {<< >>, <<0>>, <<104, 105>>, <<31, 139, 8, 0>>}

EncryptInputs ==
    { [payload |-> payload, password |-> password,
       useHighSecurity |-> useHighSecurity, compress |-> gzip] :
        payload \in Plaintexts, password \in {PasswordA, PasswordShort},
        useHighSecurity \in BOOLEAN, gzip \in BOOLEAN }

\* Values of crypto.getRandomValues in the bench.
CodecSeeds == {3, 200}

\* RGBA rasters: every byte 255, bytes that vary from pixel to pixel, and
\* bytes 0..4, the values of the PNG filter types.
RasterKinds == {"ones", "ramp", "low"}

RasterBytes(n, kind) ==
    [i \in 1..n |-> CASE kind = "ones" -> 255
                      [] kind = "ramp" -> (i * 37 + 11) % 256
                      [] OTHER -> (i * 3) % 5]

Rasters ==
    { [width |-> w, height |-> h, data |-> RasterBytes(4 * w * h, kind)] :
        w \in 1..MaxW, h \in 1..MaxH, kind \in RasterKinds }

\* A valid BMP file as another program may have written it: 24 or 32 bits
\* per pixel, rows bottom-up or top-down (negative height) and padded to 4
\* bytes, the padding bytes not zero, the pixel data after a gap of gap bytes.
BmpFile(width, height, bitsPerPixel, topDown, gap) ==
    LET bytesPerPixel == bitsPerPixel \div 8
        rowSize == ((width * bytesPerPixel + 3) \div 4) * 4
        pixelDataSize == rowSize * height
    IN  <<66, 77>> \o LE32(54 + gap + pixelDataSize) \o LE32(0) \o LE32(54 + gap)
        \o LE32(40) \o LE32Signed(width)
        \o LE32Signed(IF topDown THEN 0 - height ELSE height)
        \o LE16(1) \o LE16(bitsPerPixel) \o LE32(0) \o LE32(pixelDataSize)
        \o LE32(2835) \o LE32(2835) \o LE32(0) \o LE32(0)
        \o [i \in 1..gap |-> 170]
        \o [i \in 1..pixelDataSize |->
               IF (i - 1) % rowSize >= width * bytesPerPixel THEN 204
               ELSE CarrierByte(i)]

BmpFiles ==
    { BmpFile(w, h, bpp, topDown, gap) :
        w \in 1..MaxW, h \in 1..MaxH, bpp \in {24, 32}, topDown \in BOOLEAN,
        gap \in {0, 2} }

\* Buffers given to handleDecrypt: an envelope of this program whole, cut
\* short (to nothing, inside the salt-length field, one byte under the
\* minimum, to the minimum), and with another value in its salt-length field.
SaltLengthFields ==
    {<<0, 0, 0, 0>>, <<15, 0, 0, 0>>, <<17, 0, 0, 0>>, <<32, 0, 0, 0>>,
     <<16, 1, 0, 0>>, <<16, 0, 1, 0>>, <<16, 0, 0, 1>>, <<16, 0, 0, 128>>,
     <<0, 0, 0, 16>>}

WithSaltLength(envelope, field) ==
    [i \in 1..Len(envelope) |-> IF i \in 2..5 THEN field[i - 1] ELSE envelope[i]]

FramedBuffers ==
    {StoredEnvelope}
    \cup {SubSeq(StoredEnvelope, 1, n) :
             n \in {0, 1, 4, 5, MIN_DATA_LENGTH - 1, MIN_DATA_LENGTH}}
    \cup {WithSaltLength(StoredEnvelope, field) : field \in SaltLengthFields}
    \cup {WithSaltLength(SubSeq(StoredEnvelope, 1, MIN_DATA_LENGTH - 1), <<17, 0, 0, 0>>)}

FramedInputs ==
    {[packedData |-> packedData, password |-> password] :
        packedData \in FramedBuffers, password \in {PasswordA, PasswordB}}

\* WavData records given to encodeWav: every sequence of up to MaxSamples
\* samples over the extremes of the signed 16-bit range.
MaxSamples == 3
SampleValues == {0 - 32768, 0 - 1, 0, 1, 32767}
ChannelCounts == {1, 2, 6}
SampleRates == {0, 8000, 44100}
WavDatas ==
    {[samples |-> samples, sampleRate |-> sampleRate, channels |-> channels,
      bitsPerSample |-> 16] :
        samples \in UNION {[1..n -> SampleValues] : n \in 0..MaxSamples},
        sampleRate \in SampleRates, channels \in ChannelCounts}

CodecInit ==
    /\ cCase \in {"legacy", "container", "crypto", "png", "bmp", "wav", "framing"}
    /\ cIn \in CASE cCase = "legacy" -> DecryptedBuffers
                 [] cCase = "crypto" -> EncryptInputs
                 [] cCase = "png" -> Rasters
                 [] cCase = "bmp" -> BmpFiles
                 [] cCase = "wav" -> WavDatas
                 [] cCase = "framing" -> FramedInputs
                 [] cCase = "container" ->
                       {[data |-> data, metadata |-> metadata] :
                           data \in PayloadDatas, metadata \in MetadataRecords}
    /\ cMid = << >>
    /\ cOut = << >>
    /\ cPc = "init"

\* packPayload(data, metadata)
CodecPack ==
    /\ cCase = "container" /\ cPc = "init"
    /\ cMid' = packPayload(cIn.data, cIn.metadata)
    /\ cPc' = IF cMid'.ok THEN "packed" ELSE "failed"
    /\ UNCHANGED <<cCase, cIn, cOut>>
    /\ UNCHANGED <<stegVars, pageVars, workerVars>>

\* unpackPayload(buffer), of a decrypted buffer or of what packPayload returned
CodecUnpack ==
    /\ \/ cCase = "legacy" /\ cPc = "init"
       \/ cCase = "container" /\ cPc = "packed"
    /\ cOut' = unpackPayload(IF cCase = "legacy" THEN cIn ELSE cMid.bytes)
    /\ cPc' = "unpacked"
    /\ UNCHANGED <<cCase, cIn, cMid>>
    /\ UNCHANGED <<stegVars, pageVars, workerVars>>

\* handleEncrypt(id, payload, password, useHighSecurity, compress) of an
\* active job, run to its COMPLETE message.
CodecEncrypt(seed) ==
    /\ cCase = "crypto" /\ cPc = "init"
    /\ cMid' = EncryptResult(cIn.payload, cIn.password, cIn.useHighSecurity,
                             cIn.compress, getRandomValues(SALT_LENGTH, seed),
                             getRandomValues(IV_LENGTH, seed + 1))
    /\ cPc' = "encrypted"
    /\ UNCHANGED <<cCase, cIn, cOut>>
    /\ UNCHANGED <<stegVars, pageVars, workerVars>>

\* handleDecrypt(id, packedData, password) with the password of the
\* encryption, run to its COMPLETE or ERROR message.
CodecDecrypt ==
    /\ cCase = "crypto" /\ cPc = "encrypted"
    /\ cOut' = DecryptResult(cMid, cIn.password)
    /\ cPc' = "decrypted"
    /\ UNCHANGED <<cCase, cIn, cMid>>
    /\ UNCHANGED <<stegVars, pageVars, workerVars>>

\* encodePNG(pixels, width, height): the bytes of the blob
CodecEncodePNG ==
    /\ cCase = "png" /\ cPc = "init"
    /\ cMid' = encodePNG(cIn.data, cIn.width, cIn.height)
    /\ cPc' = "encoded"
    /\ UNCHANGED <<cCase, cIn, cOut>>
    /\ UNCHANGED <<stegVars, pageVars, workerVars>>

\* decodePNG(buffer) of the encoded file
CodecDecodePNG ==
    /\ cCase = "png" /\ cPc = "encoded"
    /\ cOut' = decodePNG(cMid)
    /\ cPc' = "decoded"
    /\ UNCHANGED <<cCase, cIn, cMid>>
    /\ UNCHANGED <<stegVars, pageVars, workerVars>>

\* decodeBMP(buffer): of the given file, and of the re-encoded file
CodecDecodeBMP ==
    /\ cCase = "bmp"
    /\ \/ /\ cPc = "init"
          /\ cMid' = [decoded |-> decodeBMP(cIn), file |-> << >>]
          /\ cPc' = IF cMid'.decoded.ok THEN "loaded" ELSE "failed"
          /\ UNCHANGED cOut
       \/ /\ cPc = "encoded"
          /\ cOut' = decodeBMP(cMid.file)
          /\ cPc' = "decoded"
          /\ UNCHANGED cMid
    /\ UNCHANGED <<cCase, cIn>>
    /\ UNCHANGED <<stegVars, pageVars, workerVars>>

\* encodeBMP(pixels, width, height) of the decoded raster
CodecEncodeBMP ==
    /\ cCase = "bmp" /\ cPc = "loaded"
    /\ cMid' = [cMid EXCEPT !.file = encodeBMP(cMid.decoded.image.data,
                                               cMid.decoded.image.width,
                                               cMid.decoded.image.height)]
    /\ cPc' = "encoded"
    /\ UNCHANGED <<cCase, cIn, cOut>>
    /\ UNCHANGED <<stegVars, pageVars, workerVars>>

\* encodeWav(wavData)
CodecEncodeWav ==
    /\ cCase = "wav" /\ cPc = "init"
    /\ cMid' = encodeWav(cIn)
    /\ cPc' = "encoded"
    /\ UNCHANGED <<cCase, cIn, cOut>>
    /\ UNCHANGED <<stegVars, pageVars, workerVars>>

\* decodeWav(buffer) of the encoded file
CodecDecodeWav ==
    /\ cCase = "wav" /\ cPc = "encoded"
    /\ cOut' = decodeWav(cMid)
    /\ cPc' = "decoded"
    /\ UNCHANGED <<cCase, cIn, cMid>>
    /\ UNCHANGED <<stegVars, pageVars, workerVars>>

\* handleDecrypt(id, packedData, password) of an active job, from the call
\* to its first await or its return: cMid is the call, cOut what it posted.
CodecHandleDecrypt ==
    /\ cCase = "framing" /\ cPc = "init"
    /\ LET call == [NoTask EXCEPT !.request = DecryptRequest(cIn.packedData, cIn.password)]
           r == DecryptFromStart(1, call, "true")
       IN  /\ cMid' = [r.task EXCEPT !.sent = Sent(r.out)]
           /\ cOut' = r.out
           /\ cPc' = IF Awaiting(r.task) THEN "awaiting" ELSE "returned"
    /\ UNCHANGED <<cCase, cIn>>
    /\ UNCHANGED <<stegVars, pageVars, workerVars>>

\* The call goes on after the promise it awaits has settled.
CodecResumeDecrypt ==
    /\ cCase = "framing" /\ cPc = "awaiting"
    /\ LET r == Continuation(1, cMid, "true", 0)
       IN  /\ cMid' = [r.task EXCEPT !.sent = @ \o Sent(r.out)]
           /\ cOut' = cOut \o r.out
           /\ cPc' = IF Awaiting(r.task) THEN "awaiting" ELSE "returned"
    /\ UNCHANGED <<cCase, cIn>>
    /\ UNCHANGED <<stegVars, pageVars, workerVars>>

CodecNext ==
    \/ CodecPack
    \/ CodecUnpack
    \/ \E seed \in CodecSeeds : CodecEncrypt(seed)
    \/ CodecDecrypt
    \/ CodecEncodePNG
    \/ CodecDecodePNG
    \/ CodecDecodeBMP
    \/ CodecEncodeBMP
    \/ CodecEncodeWav
    \/ CodecDecodeWav
    \/ CodecHandleDecrypt
    \/ CodecResumeDecrypt

CodecOnly ==
    /\ CodecInit
    /\ StegOff
    /\ PageOff
    /\ WorkerInit

SpecCodec == CodecOnly /\ [][CodecNext]_vars

\* C15: the legacy path of unpackPayload: a decrypted buffer of at least 5
\* bytes whose first byte is not 1 is returned whole and unchanged as the
\* payload, with metadata type 'file' and name 'recovered_data.bin'; the call
\* does not fail.
C15_LegacyPayload ==
    (cCase = "legacy" /\ cPc = "unpacked" /\ Len(cIn) >= 5 /\ cIn[1] # 1) =>
        /\ cOut.ok
        /\ cOut.data = cIn
        /\ cOut.metadata.type = JStr(S_file)
        /\ cOut.metadata.name = JStr(S_recoveredData)

\* A legacy buffer that looks like a container from its second byte on.
C15_Witness ==
    /\ cCase = "legacy" /\ cPc = "unpacked"
    /\ cIn = <<2, 1, 0, 0, 0, 123>>
    /\ cOut.ok /\ cOut.data = cIn


\* The metadata member that comes back for a string member handed to
\* packPayload, were it stored whatever its content.
NameReturned(returned, given) ==
    IF given.t = "string"
    THEN returned.t = "string" /\ NameAsStored(returned.s, given.s)
    ELSE returned = JUndef

TypeReturned(returned, given) ==
    IF given.t = "string"
    THEN returned = JStr(SubSeq(given.s, 1, Min(100, Len(given.s))))
    ELSE returned = JUndef

Given(member) == IF member = JStr(<< >>) THEN JUndef ELSE member

C17_FlagNegotiation ==
    (cCase = "crypto" /\ cPc = "decrypted") =>
        /\ cMid[1] = (IF cIn.compress THEN 1 ELSE 0)
                     + (IF cIn.useHighSecurity THEN 2 ELSE 0)
        /\ Iterations(BitAt(cMid[1], 1) = 1)
              = IF cIn.useHighSecurity THEN 310000 ELSE 100000
        /\ (BitAt(cMid[1], 0) = 1) = cIn.compress
        /\ cOut.ok
        /\ cOut.bytes = cIn.payload

\* A compressed, high-security envelope of a text came back as the text.
C17_Witness ==
    /\ cCase = "crypto" /\ cPc = "decrypted"
    /\ cIn.compress /\ cIn.useHighSecurity
    /\ cIn.payload = <<104, 105>>
    /\ cMid[1] = 3
    /\ cOut.ok /\ cOut.bytes = <<104, 105>>


\* C18: no partial output on failure. While handleEncode runs nothing has
\* been saved; a run that failed has saved nothing and has left the page idle
\* (isProcessing false, currentStage null); a file is saved only by a run in
\* which the carrier was loaded, the worker delivered an envelope, the
\* envelope fits the capacity, embed was called and the saved file yields the
\* envelope on extraction.
C18_NoPartialOutput ==
    /\ encPc # "idle" => download = NoFile
    /\ (encLog.started /\ encLog.outcome = "failed") =>
          (download = NoFile /\ encPc = "idle")
    /\ (download # NoFile /\ page = "encode") =>
          /\ encLog.outcome = "complete" /\ encPc = "idle"
          /\ toast = Toast("Encoding Complete", "Your file has been downloaded.")
          /\ encLocals.imageData # NoImage \/ encLocals.wavData # NoWav
          /\ FramingValid(encLog.envelope)
          /\ Len(encLog.envelope) <= encLocals.maxCapacity
          /\ encLog.embedDepth = encLsbDepth
          /\ HiddenInDownload = Bytes(encLog.envelope)

\* A run that failed at the capacity check, after the encryption.
C18_Witness ==
    /\ page = "encode" /\ encPc = "idle"
    /\ encLog.outcome = "failed"
    /\ cryptoLog.encryptions = 1
    /\ toast = EncodeFailed("Payload too large for carrier")
    /\ download = NoFile

\* A run that failed at the load stage.
C18_LoadFailed ==
    /\ page = "encode" /\ encPc = "idle"
    /\ encLog.outcome = "failed"
    /\ cryptoLog.encryptions = 0
    /\ toast = EncodeFailed("Invalid WAV file: file too small")
    /\ download = NoFile


\* C19: PNG round trip. For every RGBA raster of width W >= 1 and height
\* H >= 1, decodePNG(encodePNG(raster, W, H)) succeeds with the same width,
\* the same height and the same 4 * W * H bytes.
C19_PngRoundTrip ==
    (cCase = "png" /\ cPc = "decoded") =>
        /\ cOut.ok
        /\ cOut.image.width = cIn.width
        /\ cOut.image.height = cIn.height
        /\ Len(cOut.image.data) = 4 * cIn.width * cIn.height
        /\ cOut.image.data = cIn.data

\* A raster of several rows whose bytes are filter-type values, with alpha
\* other than 255.
C19_Witness ==
    /\ cCase = "png" /\ cPc = "decoded"
    /\ cIn.width = MaxW /\ cIn.height = MaxH
    /\ cIn.data[4] # 255
    /\ \E i \in 1..Len(cIn.data) : cIn.data[i] \in 1..4
    /\ cOut.ok /\ cOut.image.data = cIn.data


\* C20: BMP round trip. Every valid 24-bit or 32-bit BMP file f, bottom-up or
\* top-down, with padded rows, is decoded, and
\* decodeBMP(encodeBMP(decodeBMP(f))) equals decodeBMP(f): the same width,
\* height and RGBA bytes in the same row order.
C20_BmpRoundTrip ==
    /\ (cCase = "bmp" /\ cPc # "init") => cMid.decoded.ok
    /\ (cCase = "bmp" /\ cPc = "decoded") =>
          /\ cOut.ok
          /\ cOut.image.width = cMid.decoded.image.width
          /\ cOut.image.height = cMid.decoded.image.height
          /\ cOut.image.data = cMid.decoded.image.data

\* A bottom-up 24-bit file of 3 x 2 pixels with 3 bytes of row padding: the
\* first decoded pixel is the first pixel of the file's last row, as R, G, B
\* with alpha 255, and it is the first pixel after the round trip.
C20_Witness ==
    /\ cCase = "bmp" /\ cPc = "decoded"
    /\ cIn = BmpFile(3, 2, 24, FALSE, 0)
    /\ SubSeq(cMid.decoded.image.data, 1, 4)
          = <<CarrierByte(15), CarrierByte(14), CarrierByte(13), 255>>
    /\ cOut.ok
    /\ SubSeq(cOut.image.data, 1, 4) = SubSeq(cMid.decoded.image.data, 1, 4)
    /\ Len(cOut.image.data) = 24

\* The samples, channel count and sample rate decodeWav returns are those
\* given to encodeWav.
WavReturned ==
    /\ cOut.ok
    /\ cOut.wav.samples = cIn.samples
    /\ cOut.wav.channels = cIn.channels
    /\ cOut.wav.sampleRate = cIn.sampleRate

ExpectedStages(request) ==
    IF request.type = "ENCRYPT"
    THEN <<"Prepare">> \o (IF request.compress THEN <<"Compress">> ELSE << >>)
         \o <<"DeriveKey", "Encrypt", "Frame">>
    ELSE <<"Unframe", "ValidateLengths", "DeriveKey", "Decrypt">>
         \o (IF request.ciphertext # << >> /\ BitAt(request.ciphertext[1], 0) = 1
             THEN <<"Decompress">> ELSE << >>)

IsPrefix(a, b) == Len(a) <= Len(b) /\ a = SubSeq(b, 1, Len(a))

\* The stages a call has entered, without the catch block that ended it.
StagesRun(task) ==
    IF task.stages # << >> /\ task.stages[Len(task.stages)] = "catch"
    THEN SubSeq(task.stages, 1, Len(task.stages) - 1)
    ELSE task.stages

Failed(task) == \E i \in 1..Len(task.stages) : task.stages[i] = "catch"

\* C22: Stage order inside the crypto worker. For every job the stages run in
\* the order Prepare, (Compress), DeriveKey, Encrypt, Frame for encryption and
\* Unframe, ValidateLengths, DeriveKey, Decrypt, (Decompress) for decryption;
\* the PROGRESS values sent for one job are strictly increasing; COMPLETE is
\* sent only after the last stage, as the last message; and after a stage has
\* failed (the catch block was entered) no later stage of that job runs.
C22_StageOrder ==
    \A id \in JobIds :
        LET task == tasks[id]
            run == StagesRun(task)
            n == Len(task.sent)
        IN  /\ IsPrefix(run, ExpectedStages(task.request))
            /\ ~\E i \in 1..Len(run) : run[i] = "catch"
            /\ \A i, j \in 1..n :
                  (i < j /\ task.sent[i].type = "PROGRESS"
                         /\ task.sent[j].type = "PROGRESS")
                      => task.sent[i].progress < task.sent[j].progress
            /\ \A i \in 1..n :
                  task.sent[i].type = "COMPLETE" =>
                      /\ i = n
                      /\ task.stages = ExpectedStages(task.request)
                      /\ task.pc = "done"
            /\ Failed(task) => task.pc = "done" /\ task.sent[n].type = "ERROR"

\* One job ran all five stages of an encryption with compression and sent
\* COMPLETE; the other failed in Decrypt and ran nothing after it.
C22_Witness ==
    \E a, b \in JobIds :
        /\ tasks[a].stages = <<"Prepare", "Compress", "DeriveKey", "Encrypt", "Frame">>
        /\ tasks[a].sent[Len(tasks[a].sent)].type = "COMPLETE"
        /\ [i \in 1..6 |-> tasks[a].sent[i].progress] = <<10, 20, 40, 70, 90, 100>>
        /\ tasks[b].stages = <<"Unframe", "ValidateLengths", "DeriveKey", "Decrypt", "catch">>
        /\ tasks[b].sent[Len(tasks[b].sent)].type = "ERROR"

\* The envelope is shorter than 49 bytes or its salt-length field is not 16.
BadFraming(packedData) ==
    \/ Len(packedData) < 49
    \/ packedData[2] + 256 * packedData[3] # 16
    \/ packedData[4] # 0
    \/ packedData[5] # 0

Entered(task, name) == \E i \in 1..Len(task.stages) : task.stages[i] = name

\* C23: Framing validation comes before key derivation. Whenever the envelope
\* given to handleDecrypt is shorter than 49 bytes or its salt-length field
\* (bytes 1..4, little-endian) is not 16, the worker sends ERROR with the
\* generic message and performs neither key derivation nor AES-GCM decryption
\* for that job; and every envelope produced by handleEncrypt
\* (1 + 4 + 16 + 12 + ciphertext bytes) passes this validation.
C23_FramingBeforeKey ==
    /\ (cCase = "framing" /\ cPc # "init" /\ BadFraming(cIn.packedData)) =>
          /\ cPc = "returned"
          /\ cOut = <<sendProgress(1, 10, "decrypt"), sendError(1, GENERIC_ERROR)>>
          /\ ~Entered(cMid, "DeriveKey")
          /\ ~Entered(cMid, "Decrypt")
          /\ cMid.key = NoTask.key
    /\ (cCase = "crypto" /\ cPc \in {"encrypted", "decrypted"}) =>
          LET dataToEncrypt == IF cIn.compress THEN compressData(cIn.payload)
                               ELSE cIn.payload
          IN  /\ ~BadFraming(cMid)
              /\ Len(cMid) = 1 + 4 + 16 + 12 + (Len(dataToEncrypt) + 16)
              /\ FramingValid(cMid)

\* A buffer long enough whose salt-length field says 17 was refused.
C23_Witness ==
    /\ cCase = "framing" /\ cPc = "returned"
    /\ Len(cIn.packedData) >= 49
    /\ SubSeq(cIn.packedData, 2, 5) = <<17, 0, 0, 0>>
    /\ cOut[Len(cOut)] = sendError(1, GENERIC_ERROR)
    /\ cMid.stages = <<"Unframe", "ValidateLengths", "catch">>

\* C24: Every promise returned by WorkerClient.execute is settled at most
\* once, under every interleaving of worker messages (PROGRESS, COMPLETE,
\* ERROR), cancel(), a worker crash (onerror) and terminate(); once it is
\* settled the job is no longer in the client's jobs map, and its onProgress
\* callback is never invoked again, whatever messages with that id arrive.
C24_SettledOnce ==
    \A id \in JobIds :
        /\ jobs[id].settled <= 1
        /\ jobs[id].settled = 1 <=> jobs[id].state \in {"resolved", "rejected"}
        /\ jobs[id].settled > 0 => jobsGet(id) = 0
        /\ ~jobs[id].lateProgress

\* One job was rejected by the crash while its worker call ran on to
\* COMPLETE, and every message of the worker has been handled; the other was
\* rejected by terminate().
C24_Witness ==
    \E a, b \in JobIds :
        /\ jobs[a].error = "Worker crashed" /\ jobs[a].settled = 1
        /\ tasks[a].completeSent
        /\ clientInbox = << >>
        /\ jobs[b].error = "Worker terminated" /\ jobs[b].settled = 1

\* The terminal messages (COMPLETE, ERROR) among those a call has posted.
Terminals(task) ==
    {i \in 1..Len(task.sent) : task.sent[i].type \in {"COMPLETE", "ERROR"}}

Ended(task) == Terminals(task) # {}

\* C25: Every ENCRYPT or DECRYPT job that is never cancelled eventually ends
\* with exactly one terminal message from the crypto worker, COMPLETE or ERROR
\* and never both, and the worker sends no further message with that id
\* afterwards (each awaited compression, key-derivation and cipher call
\* eventually returns or throws).
C25_JobEnds ==
    /\ [](\A id \in JobIds :
             /\ Cardinality(Terminals(tasks[id])) <= 1
             /\ Terminals(tasks[id]) \subseteq {Len(tasks[id].sent)}
             /\ Ended(tasks[id]) => ~Awaiting(tasks[id]))
    /\ \A id \in JobIds :
          (jobs[id].state # "unused") ~> (jobs[id].cancelled \/ Ended(tasks[id]))

\* Two jobs that were never cancelled have ended, one with COMPLETE and one
\* with ERROR, and their calls have returned.
C25_Witness ==
    \E a, b \in JobIds :
        /\ ~jobs[a].cancelled /\ ~jobs[b].cancelled
        /\ tasks[a].sent # << >> /\ tasks[b].sent # << >>
        /\ tasks[a].sent[Len(tasks[a].sent)].type = "COMPLETE"
        /\ tasks[b].sent[Len(tasks[b].sent)].type = "ERROR"
        /\ tasks[a].pc = "done" /\ tasks[b].pc = "done"

\* The call of job id has returned, and no message for the job waits at the worker.
Finished(id) ==
    /\ tasks[id].pc \in {"done", "aborted"}
    /\ \A i \in 1..Len(workerInbox) : workerInbox[i].id # id

\* C26: The crypto worker keeps no state about finished jobs. Once a job has
\* ended (completed, failed, or aborted after a cancel) and every message sent
\* for it has been processed, activeJobs holds no entry for its id, under every
\* ordering of the CANCEL message relative to the job's completion.
C26_NoEntryForFinishedJob ==
    \A id \in JobIds : Finished(id) => activeJobs[id] = "absent"

\* The entries that outlive their job are exactly those a CANCEL wrote after
\* the call had returned.
C26_OnlyLateCancelLeavesEntry ==
    \A id \in JobIds :
        Finished(id) =>
            \/ activeJobs[id] = "absent"
            \/ /\ activeJobs[id] = "false"
               /\ tasks[id].cancelProcessed
               /\ jobs[id].cancelled

\* ---------------------------------------------------------------------------
\* The extraction sanity check (SpecProbe)
\* ---------------------------------------------------------------------------
\* The values a carrier offers, in order: R, G and B of every pixel, or the
\* samples as 16-bit patterns.
CarrierValues ==
    IF sKind = "image"
    THEN [c \in 1..(3 * (Len(sImage.data) \div 4)) |->
             sImage.data[4 * ((c - 1) \div 3) + ((c - 1) % 3) + 1]]
    ELSE [i \in 1..Len(sWav.samples) |-> U16(sWav.samples[i])]

\* Bit k (from 0) of the stream of the d low bits of every value, the highest
\* of the d bits first, and the byte made of bits start .. start + 7.
StreamBit(values, d, k) == BitAt(values[(k \div d) + 1], (d - 1) - (k % d))

RECURSIVE StreamBits(_, _, _, _)
StreamBits(values, d, start, n) ==
    IF n = 0 THEN 0
    ELSE 2 * StreamBits(values, d, start, n - 1) + StreamBit(values, d, start + n - 1)

StreamByte(values, d, start) == StreamBits(values, d, start, 8)

\* What the sanity check lets through, stated on the stream: null, or the L
\* bytes behind the 64 header bits.
ExpectedExtraction(values, d) ==
    LET totalBits == Len(values) * d
        field == [j \in 1..4 |-> StreamByte(values, d, 32 + 8 * (j - 1))]
        L == 16777216 * (field[1] % 128) + 65536 * field[2] + 256 * field[3] + field[4]
    IN IF totalBits < 64 THEN NULL
       ELSE IF [j \in 1..4 |-> StreamByte(values, d, 8 * (j - 1))] # <<83, 84, 69, 71>>
       THEN NULL
       ELSE IF field[1] >= 128 \/ L = 0 \/ L > (totalBits - 64) \div 8 THEN NULL
       ELSE Bytes([i \in 1..L |-> StreamByte(values, d, 64 + 8 * (i - 1))])

\* C27: Extraction sanity check. extractData and extractWavData return null
\* exactly when the carrier offers fewer than 64 bits, the first 32 extracted
\* bits are not 'STEG', or the big-endian length field L is 0 or greater than
\* floor((totalBits - 64) / 8); otherwise they return exactly L bytes, each
\* built only from bits inside the extracted stream. A carrier in which an
\* empty envelope was embedded is reported as containing no hidden data.
C27_SanityCheck ==
    sPc = "probed" =>
        LET values == << >> \o CarrierValues
        IN  /\ sOut = ExpectedExtraction(values, sXDepth)
            /\ sOut.found => 64 + 8 * Len(sOut.bytes) <= Len(values) * sXDepth

\* A 3 x 9 raster into which embedData has embedded the empty envelope at
\* depth 2, extracted at depth 2: 'STEG' is there, and null is returned.
C27_Witness ==
    /\ sPc = "probed" /\ sKind = "image" /\ sDepth = 2 /\ sXDepth = 2
    /\ sImage = embedData([width |-> 3, height |-> 9, data |-> RawPixels(108, "ramp")],
                          << >>, 2).image
    /\ [j \in 1..4 |-> ImageByte(sImage.data, 2, 8 * (j - 1))] = MAGIC_HEADER
    /\ sOut = NULL

\* ---------------------------------------------------------------------------
\* Depth mismatch at every pair of depths (SpecSteg)
\* ---------------------------------------------------------------------------
\* C28: Depth mismatch in general. For every pair of different depths de and
\* dx in 1..4, every carrier and every envelope, extraction at depth dx from a
\* carrier embedded at depth de returns null, for images and for audio; the
\* 'STEG' magic is never reproduced at a wrong depth, whatever the carrier's
\* own bits are.
C28_AnyDepthMismatchNull ==
    (sPc = "extracted" /\ sXDepth # sDepth) =>
        /\ sOut = NULL
        /\ LET length == IF sKind = "image" THEN ExtractedBitsLength(sStego.image.data, sXDepth)
                         ELSE Len(sStego.wav.samples) * sXDepth
           IN length >= 32 =>
                 [j \in 1..4 |->
                     IF sKind = "image" THEN ImageByte(sStego.image.data, sXDepth, 8 * (j - 1))
                     ELSE WavByte(sStego.wav.samples, sXDepth, 8 * (j - 1))] # MAGIC_HEADER

\* Samples that held a frame of depth 4 before a frame was embedded at depth
\* 3: extraction at depth 4 found bytes before the embedding and finds none
\* after it.
C28_Witness ==
    /\ sKind = "audio" /\ sPc = "extracted"
    /\ sDepth = 3 /\ sXDepth = 4
    /\ extractWavData(sWav, 4) # NULL
    /\ sOut = NULL

\* ---------------------------------------------------------------------------
\* What an embedding leaves alone (SpecSteg)
\* ---------------------------------------------------------------------------
\* The bits of a value above position d - 1.
UpperBits(value, d) == value \div Pow2(d)

Distance(a, b) == IF a < b THEN b - a ELSE a - b

\* Number of bits the embedding writes: 'STEG', the length and the envelope.
MessageBits == 8 * (8 + Len(sEnv))

\* R, G and B of the output against the input, value by value (c counts the
\* R, G, B values of the raster from 0).
ImageKeepsUpperBits ==
    LET in == sImage.data
        out == sStego.image.data
    IN /\ Len(out) = Len(in)
       /\ \A i \in 1..Len(in) :
             LET c == 3 * ((i - 1) \div 4) + ((i - 1) % 4)
             IN (i - 1) % 4 # 3 =>
                   /\ UpperBits(out[i], sDepth) = UpperBits(in[i], sDepth)
                   /\ Distance(out[i], in[i]) < Pow2(sDepth)
                   /\ sDepth * c >= MessageBits => out[i] = in[i]

\* The samples of the output against the input.
WavKeepsUpperBits ==
    LET in == sWav.samples
        out == sStego.wav.samples
    IN /\ Len(out) = Len(in)
       /\ \A i \in 1..Len(in) :
             /\ out[i] \in -32768..32767
             /\ UpperBits(U16(out[i]), sDepth) = UpperBits(U16(in[i]), sDepth)
             /\ (out[i] < 0) = (in[i] < 0)
             /\ Distance(out[i], in[i]) < Pow2(sDepth)
             /\ sDepth * (i - 1) >= MessageBits => out[i] = in[i]

\* C29: Embedding changes only the d least-significant bits. For every R, G or
\* B value written by embedData and every sample written by embedWavData the
\* bits above position d - 1 are the same before and after, so each value
\* changes by less than 2^d and a negative sample stays a signed 16-bit value
\* with the same upper bits; R, G, B values and samples beyond the end of the
\* message are unchanged, and the input raster or sample array is never
\* modified by a call.
C29_OnlyLowBitsChange ==
    /\ [](sStego.ok => IF sKind = "image" THEN ImageKeepsUpperBits ELSE WavKeepsUpperBits)
    /\ [][sImage' = sImage /\ sWav' = sWav]_vars

\* Negative and positive samples embedded at depth 3: a written sample
\* differs from its input, and the samples behind the message exist.
C29_Witness ==
    /\ sKind = "audio" /\ sPc = "embedded" /\ sDepth = 3
    /\ \E i, j \in 1..Len(sWav.samples) :
          /\ sWav.samples[i] < 0 /\ sStego.wav.samples[i] # sWav.samples[i]
          /\ sWav.samples[j] > 0 /\ sStego.wav.samples[j] # sWav.samples[j]
    /\ Len(sWav.samples) * 3 > MessageBits + 3

\* ---------------------------------------------------------------------------
\* The fallback module's round trip (SpecFallback)
\* ---------------------------------------------------------------------------
\* The payload and its 32-bit header fit into the bits the carrier offers.
FallbackFits ==
    8 * (4 + Len(sEnv))
       <= sDepth * (IF sKind = "image" THEN 3 * sImage.width * sImage.height
                    ELSE Len(sWav.samples))

\* C30: the JavaScript fallback steganography module round-trips. For every
\* raster, every depth d in 1..4, every value of the randomize flag and every
\* non-empty payload that fits, extract(embed(image, w, h, payload, d,
\* randomize), w, h, d) returns the payload, and extract_audio(embed_audio(
\* samples, payload, d), d) returns the payload.
C30_FallbackRoundTrip ==
    (sPc = "fallback extracted" /\ sXDepth = sDepth /\ FallbackFits) => sOut = Bytes(sEnv)

\* What the module does instead: the length is written least significant
\* byte first and read most significant byte first, so a payload of 1..2
\* bytes is read back as a length of 2^24 or more, or as a negative one, and
\* extraction at the depth of the embedding returns null.
C30_FallbackReturnsNull ==
    (sPc = "fallback extracted" /\ sXDepth = sDepth /\ FallbackFits) =>
        /\ sOut = NULL
        /\ LET first == IF sKind = "image" THEN ImageByte(sStego.image.data, sDepth, 0)
                        ELSE WavByte(sStego.wav.samples, sDepth, 0)
           IN first = Len(sEnv)

====
